---- MODULE Spec2Model ----
(***************************************************************************)
(* Model of gondola's query core.                                          *)
(*                                                                         *)
(* Package sql, type DB: the literal-aware placeholder rewriting, the      *)
(* prepared-statement cache keyed by the CRC-32 of the rewritten text, and *)
(* the transaction handles returned by Begin.                              *)
(*                                                                         *)
(* Package orm, types model and joinModel: the join chain of a query, the  *)
(* implicit and explicit joins of joinWith and joinWithField, and the      *)
(* mapping of qualified field names to columns.                            *)
(*                                                                         *)
(* SQL texts and names are sequences of one-character strings.  Go indexes *)
(* strings from 0, TLA+ sequences from 1: the loop index ii of the source  *)
(* is i-1 here.                                                            *)
(***************************************************************************)
EXTENDS Integers, Sequences, FiniteSets, TLC

VARIABLES
    handles,      \* the *DB values created so far: handles[1] is the opened DB
    maps,         \* the heap of cache maps made by make(map[uint32]cacheEntry)
    txs,          \* the *sql.Tx values created so far, each with its state
    backend,      \* the placeholder style of d.driver.backend
    lastOp,       \* the last call on a handle: its inputs, backend calls, result
    query,        \* the argument of a direct replacePlaceholders call
    rpResult,     \* that call's return value, and its locals before each character
    refs,         \* model.modelReferences of every model
    chain,        \* the join chain of the query being built
    models,       \* the set of joined models the query hands to joinWithField
    methods,      \* the methods joinWithField has accumulated for the query
    ormOp,        \* the last call on the chain or on a model: its inputs and result
    gs,           \* each goroutine's position in preparedStmt, with its locals
    mus,          \* d.mu of every handle: who holds it for reading and for writing
    heap          \* the joinModel and join objects of several chains, by address

dbVars == <<handles, maps, txs, lastOp>>
rpVars == <<query, rpResult>>
ormVars == <<refs, chain, models, methods, ormOp>>
goVars == <<gs, mus>>
vars == <<handles, maps, txs, backend, lastOp, query, rpResult,
          refs, chain, models, methods, ormOp, gs, mus, heap>>

-----------------------------------------------------------------------------
(* Bounds *)

\* longest text handed to a direct replacePlaceholders call
MaxLen == 5
\* most *DB handles alive (the opened one and the ones returned by Begin)
MaxHandles == 3
\* most Rollback calls one *sql.Tx receives in one run
MaxTxCalls == 2
\* most handles alive where every text is used
MaxCacheHandles == 2

-----------------------------------------------------------------------------
(* Characters and texts *)

\* the alphabet of the texts given to replacePlaceholders directly
Alphabet == {"'", "\"", "?", "a"}

RECURSIVE SeqsUpTo(_, _)
SeqsUpTo(S, n) ==
    IF n = 0 THEN {<<>>}
    ELSE LET shorter == SeqsUpTo(S, n - 1)
         IN  shorter \cup {Append(s, c) : s \in {t \in shorter : Len(t) = n - 1}, c \in S}

\* the byte value of a character (the texts are ASCII)
Ord(c) ==
    CASE c = "\"" -> 34 [] c = "$" -> 36 [] c = "'" -> 39
      [] c = "0" -> 48 [] c = "1" -> 49 [] c = "2" -> 50 [] c = "3" -> 51
      [] c = "4" -> 52 [] c = "5" -> 53 [] c = "6" -> 54 [] c = "7" -> 55
      [] c = "8" -> 56 [] c = "9" -> 57 [] c = "=" -> 61 [] c = "?" -> 63
      [] c = "a" -> 97 [] c = "b" -> 98 [] c = "c" -> 99 [] c = "e" -> 101
      [] c = "k" -> 107 [] c = "l" -> 108 [] c = "m" -> 109 [] c = "o" -> 111
      [] c = "p" -> 112 [] c = "r" -> 114 [] c = "s" -> 115 [] c = "u" -> 117

DigitChar(n) ==
    CASE n = 0 -> "0" [] n = 1 -> "1" [] n = 2 -> "2" [] n = 3 -> "3" [] n = 4 -> "4"
      [] n = 5 -> "5" [] n = 6 -> "6" [] n = 7 -> "7" [] n = 8 -> "8" [] n = 9 -> "9"

\* the decimal digits of n, as fmt's %d prints them
RECURSIVE Itoa(_)
Itoa(n) == IF n < 10 THEN <<DigitChar(n)>> ELSE Append(Itoa(n \div 10), DigitChar(n % 10))

-----------------------------------------------------------------------------
(* The backend's placeholder formatter *)

Backends == {"numbered", "question"}

\* d.driver.backend.Placeholder(n): $1, $2, ... or a repeated ?
Placeholder(b, n) == IF b = "numbered" THEN <<"$">> \o Itoa(n + 1) ELSE <<"?">>

-----------------------------------------------------------------------------
(* DB.replacePlaceholders *)

\* the locals of replacePlaceholders before the loop
ScanInit == [inQuote |-> FALSE, inDoubleQuote |-> FALSE, p |-> 0, written |-> 0, buf |-> <<>>]

\* one iteration of the loop, on the character at i (ii = i - 1 in the source)
ScanStep(b, q, s, i) ==
    LET ch == q[i] IN
    CASE ch = "'" ->
            IF i = Len(q) \/ q[i + 1] # "'"
            THEN [s EXCEPT !.inQuote = ~s.inQuote]
            ELSE s
      [] ch = "\"" -> [s EXCEPT !.inDoubleQuote = ~s.inDoubleQuote]
      [] ch = "?" ->
            IF ~s.inQuote /\ ~s.inDoubleQuote
            THEN [s EXCEPT !.buf = s.buf \o SubSeq(q, s.written + 1, i - 1) \o Placeholder(b, s.p),
                           !.p = s.p + 1,
                           !.written = i]
            ELSE s
      [] OTHER -> s

\* the locals after the loop has consumed the first k characters
RECURSIVE Scan(_, _, _)
Scan(b, q, k) == IF k = 0 THEN ScanInit ELSE ScanStep(b, q, Scan(b, q, k - 1), k)

replacePlaceholders(b, q) ==
    LET s == Scan(b, q, Len(q)) IN
    IF s.written = 0 THEN q
    ELSE s.buf \o SubSeq(q, s.written + 1, Len(q))

-----------------------------------------------------------------------------
(* crc32.ChecksumIEEE, on 32-bit words held as <<high 16 bits, low 16 bits>> *)

RECURSIVE Xor16(_, _)
Xor16(x, y) ==
    IF x = 0 THEN y
    ELSE IF y = 0 THEN x
    ELSE (((x % 2) + (y % 2)) % 2) + 2 * Xor16(x \div 2, y \div 2)

Xor32(x, y) == <<Xor16(x[1], y[1]), Xor16(x[2], y[2])>>

ShiftRight(x) == <<x[1] \div 2, (x[2] \div 2) + (x[1] % 2) * 32768>>

\* the reflected IEEE polynomial 0xEDB88320
IEEEPoly == <<60856, 33568>>

AllOnes == <<65535, 65535>>

\* one shift-and-reduce round
CrcRound(x) == IF (x[2] % 2) = 1 THEN Xor32(ShiftRight(x), IEEEPoly) ELSE ShiftRight(x)

\* the n rounds left of the eight a byte takes (each value is computed before
\* the next round starts)
RECURSIVE CrcRounds(_, _)
CrcRounds(x, n) ==
    IF n = 0 THEN x
    ELSE LET y == CrcRound(x) IN IF y[1] >= 0 THEN CrcRounds(y, n - 1) ELSE y

RECURSIVE CrcUpdate(_, _, _)
CrcUpdate(x, s, k) ==
    IF k > Len(s) THEN x
    ELSE LET y == CrcRounds(Xor32(x, <<0, Ord(s[k])>>), 8)
         IN  IF y[1] >= 0 THEN CrcUpdate(y, s, k + 1) ELSE y

ChecksumIEEE(s) == Xor32(CrcUpdate(AllOnes, s, 1), AllOnes)

-----------------------------------------------------------------------------
(* The texts handed to Exec, Query and QueryRow *)

Plumless == <<"p", "l", "u", "m", "l", "e", "s", "s">>
Buckeroo == <<"b", "u", "c", "k", "e", "r", "o", "o">>
EqParam == <<"a", "=", "?">>

\* two texts with the same CRC-32 (0x4DDB0C25) and one with a placeholder
Queries == {Plumless, Buckeroo, EqParam}

\* every text a method can hand to replacePlaceholders: QueryRow rewrites the
\* rewritten text once more
RewriteInputs ==
    {<<b, q>> : b \in Backends, q \in Queries}
        \cup {<<b, replacePlaceholders(b, q)>> : b \in Backends, q \in Queries}

\* replacePlaceholders tabulated over S, each value computed once
RECURSIVE RewriteTableOf(_)
RewriteTableOf(S) ==
    IF S = {} THEN <<>>
    ELSE LET x == CHOOSE y \in S : TRUE
         IN  (x :> replacePlaceholders(x[1], x[2])) @@ RewriteTableOf(S \ {x})

RewriteTable == RewriteTableOf(RewriteInputs)

\* every text preparedStmt can be given
SentTexts == {bq[2] : bq \in RewriteInputs} \cup {RewriteTable[bq] : bq \in RewriteInputs}

\* ChecksumIEEE tabulated over S, each value computed once
RECURSIVE CrcTableOf(_)
CrcTableOf(S) ==
    IF S = {} THEN <<>>
    ELSE LET x == CHOOSE y \in S : TRUE
         IN  (x :> ChecksumIEEE(x)) @@ CrcTableOf(S \ {x})

CrcTable == CrcTableOf(SentTexts)

-----------------------------------------------------------------------------
(* Values *)

\* a nil *sql.Stmt
NoStmt == [text |-> <<>>, tx |-> 0, prepared |-> FALSE]

\* the *DB made by the driver: the zero value but for sqlDb, conn and the driver
\* settings; tx 0 is a nil *sql.Tx, conn 0 is sqlDb, cache 0 is a nil map
OpenedDB(rp) ==
    [tx |-> 0, txDone |-> FALSE, conn |-> 0, replacesPlaceholders |-> rp, cache |-> 0]

\* what a map read gives for a missing key: the zero cacheEntry and false
NotFound == [ok |-> FALSE, cached |-> [sql |-> <<>>, stmt |-> NoStmt]]

\* a call that did not read the map
NoLookup == NotFound

\* a map read; reading a nil map finds nothing
CacheLookup(ms, d, key) ==
    IF d.cache # 0 /\ key \in DOMAIN ms[d.cache]
    THEN [ok |-> TRUE, cached |-> ms[d.cache][key]]
    ELSE NotFound

MapStore(m, key, e) == [k \in (DOMAIN m) \cup {key} |-> IF k = key THEN e ELSE m[k]]

\* tx.Stmt(stmt): the statement bound to the transaction
TxStmt(tx, stmt) == [stmt EXCEPT !.tx = tx]

-----------------------------------------------------------------------------
(* DB.preparedStmt *)

\* (mutant) the entry found under the checksum is used without comparing texts
cacheHitByKey(look, s) == look.ok

\* line 189: the cached entry is used only if its text is the looked-up text
cacheHit(look, s) == look.ok /\ look.cached.sql = s

\* (mutant) the new statement is not stored
cacheInsertNothing(hs, ms, h, key, e) == [handles |-> hs, maps |-> ms]

\* lines 200-205: the handle's map, made if nil, with the new entry stored
cacheInsert(hs, ms, h, key, e) ==
    IF hs[h].cache = 0
    THEN [handles |-> [hs EXCEPT ![h].cache = Len(ms) + 1],
          maps |-> Append(ms, MapStore(<<>>, key, e))]
    ELSE [handles |-> hs,
          maps |-> [ms EXCEPT ![hs[h].cache] = MapStore(ms[hs[h].cache], key, e)]]

\* (mutant) the statement is used as prepared on sqlDb, also inside a transaction
boundStmtNever(d, stmt) == [stmt |-> stmt, calls |-> <<>>]

\* lines 190-193 and 206-209: the statement, bound to the transaction inside one
boundStmt(d, stmt) ==
    IF d.tx # 0
    THEN [stmt |-> TxStmt(d.tx, stmt), calls |-> <<[fn |-> "Tx.Stmt", tx |-> d.tx, stmt |-> stmt]>>]
    ELSE [stmt |-> stmt, calls |-> <<>>]

\* preparedStmt on handle h for text s; prepOk is whether sqlDb.Prepare succeeds
preparedStmt(hs, ms, h, s, prepOk) ==
    LET d == hs[h]
        key == CrcTable[s]
        look == CacheLookup(ms, d, key)
    IN  IF cacheHit(look, s)
        THEN LET b == boundStmt(d, look.cached.stmt)
             IN  [handles |-> hs, maps |-> ms, look |-> look, hit |-> TRUE,
                  stmt |-> b.stmt, calls |-> b.calls]
        ELSE LET prep == [fn |-> "DB.Prepare", sql |-> s, ok |-> prepOk] IN
             IF ~prepOk
             THEN [handles |-> hs, maps |-> ms, look |-> look, hit |-> FALSE,
                   stmt |-> NoStmt, calls |-> <<prep>>]
             ELSE LET stmt == [text |-> s, tx |-> 0, prepared |-> TRUE]
                      ins == cacheInsert(hs, ms, h, key, [sql |-> s, stmt |-> stmt])
                      b == boundStmt(d, stmt)
                  IN  [handles |-> ins.handles, maps |-> ins.maps, look |-> look,
                       hit |-> FALSE, stmt |-> b.stmt, calls |-> <<prep>> \o b.calls]

-----------------------------------------------------------------------------
(* DB.Exec, DB.Query, DB.QueryRow *)

ExecOps == {"Exec", "Query", "QueryRow"}

\* lines 86-88, 99-101, 112-115: the text after the rewriting each method does
rewritten(op, d, b, q) ==
    LET once == IF d.replacesPlaceholders THEN RewriteTable[<<b, q>>] ELSE q
    IN  IF op = "QueryRow" THEN RewriteTable[<<b, once>>] ELSE once

\* (mutant) the unprepared call goes to sqlDb, also inside a transaction
connCallOnSqlDb(op, d, s, val) == [fn |-> "conn." \o op, conn |-> 0, sql |-> s, val |-> val]

\* lines 95, 108, 122: the call made when no prepared statement is used
connCall(op, d, s, val) == [fn |-> "conn." \o op, conn |-> d.conn, sql |-> s, val |-> val]

\* lines 92, 105, 119: the call on the prepared statement
stmtCall(op, stmt, val) == [fn |-> "stmt." \o op, stmt |-> stmt, val |-> val]

\* what the backend can answer on connection c (0 is sqlDb); a finished
\* transaction answers with an error
Outcomes(c) == IF c = 0 \/ txs[c].state = "active" THEN {"ok", "err"} ELSE {"err"}

\* (mutant) a failed statement is run again, unprepared, on the connection
execCallsRetried(op, d, s, stmt, val) ==
    IF stmt # NoStmt
    THEN IF val = "err" THEN <<stmtCall(op, stmt, val), connCall(op, d, s, val)>>
         ELSE <<stmtCall(op, stmt, val)>>
    ELSE <<connCall(op, d, s, val)>>

\* lines 90-95, 103-108, 117-122: the one execution request of a call, on the
\* statement if there is one and on the connection otherwise
execCalls(op, d, s, stmt, val) ==
    IF stmt # NoStmt THEN <<stmtCall(op, stmt, val)>> ELSE <<connCall(op, d, s, val)>>

Run(op, h, q, args) ==
    LET d == handles[h]
        s == rewritten(op, d, backend, q)
    IN  IF args
        THEN \E prepOk \in BOOLEAN :
               LET r == preparedStmt(handles, maps, h, s, prepOk) IN
               \E val \in Outcomes(IF r.stmt = NoStmt THEN d.conn ELSE r.stmt.tx) :
                    LET ec == execCalls(op, d, s, r.stmt, val)
                    IN  /\ handles' = r.handles
                        /\ maps' = r.maps
                        /\ lastOp' = [op |-> op, h |-> h, q |-> q, args |-> args, sent |-> s,
                                      look |-> r.look, hit |-> r.hit, stmt |-> r.stmt,
                                      calls |-> r.calls \o ec,
                                      res |-> [val |-> val, of |-> ec[Len(ec)].fn]]
        ELSE \E val \in Outcomes(d.conn) :
               LET ec == execCalls(op, d, s, NoStmt, val) IN
               /\ lastOp' = [op |-> op, h |-> h, q |-> q, args |-> args, sent |-> s,
                             look |-> NoLookup, hit |-> FALSE, stmt |-> NoStmt,
                             calls |-> ec,
                             res |-> [val |-> val, of |-> ec[Len(ec)].fn]]
               /\ UNCHANGED <<handles, maps>>

Exec(h, q, args) ==
    /\ Run("Exec", h, q, args)
    /\ UNCHANGED <<txs, backend, rpVars>>

Query(h, q, args) ==
    /\ Run("Query", h, q, args)
    /\ UNCHANGED <<txs, backend, rpVars>>

QueryRow(h, q, args) ==
    /\ Run("QueryRow", h, q, args)
    /\ UNCHANGED <<txs, backend, rpVars>>

-----------------------------------------------------------------------------
(* sql.Tx.Commit and sql.Tx.Rollback: a finished transaction answers ErrTxDone *)

TxFinish(t, fn, ok) ==
    IF txs[t].state # "active" THEN [state |-> "done", err |-> "ErrTxDone"]
    ELSE [state |-> "done", err |-> IF ok THEN "nil" ELSE "backend"]

\* the call, counted on the transaction it is made on; finished records that
\* the caller asked for Commit or Rollback (Close does not)
TxCall(t, fn, ok, byCaller) ==
    LET f == TxFinish(t, fn, ok) IN
    [txs |-> [txs EXCEPT ![t].state = f.state,
                         ![t].rollbacks = @ + (IF fn = "Tx.Rollback" THEN 1 ELSE 0),
                         ![t].finished = @ \/ byCaller],
     call |-> [fn |-> fn, tx |-> t],
     err |-> f.err]

TxCallAllowed(t, fn) == fn = "Tx.Rollback" => txs[t].rollbacks < MaxTxCalls

-----------------------------------------------------------------------------
(* DB.Begin *)

\* (mutant) a handle whose transaction is finished may begin again
InTransactionUnlessDone(d) == d.tx # 0 /\ ~d.txDone

\* line 126
InTransaction(d) == d.tx # 0

\* (mutant) the transaction is stored in d before d is copied
BeginHandlesInPlace(hs, h, t) ==
    Append([hs EXCEPT ![h].tx = t, ![h].conn = t], [hs[h] EXCEPT !.tx = t, !.conn = t])

\* lines 133-136: dc := *d; dc.tx = tx; dc.conn = tx; return &dc
BeginHandles(hs, h, t) == Append(hs, [hs[h] EXCEPT !.tx = t, !.conn = t])

Begin(h) ==
    LET d == handles[h] IN
    /\ IF InTransaction(d)
       THEN /\ lastOp' = [op |-> "Begin", h |-> h, calls |-> <<>>,
                          res |-> [err |-> "ErrInTransaction", handle |-> 0]]
            /\ UNCHANGED <<handles, txs>>
       ELSE \E ok \in {x \in BOOLEAN : x => Len(handles) < MaxHandles} :
              IF ok
              THEN /\ txs' = Append(txs, [state |-> "active", rollbacks |-> 0, finished |-> FALSE])
                   /\ handles' = BeginHandles(handles, h, Len(txs) + 1)
                   /\ lastOp' = [op |-> "Begin", h |-> h, calls |-> <<[fn |-> "DB.Begin"]>>,
                                 res |-> [err |-> "nil", handle |-> Len(handles) + 1]]
              ELSE /\ lastOp' = [op |-> "Begin", h |-> h, calls |-> <<[fn |-> "DB.Begin"]>>,
                                 res |-> [err |-> "backend", handle |-> 0]]
                   /\ UNCHANGED <<handles, txs>>
    /\ UNCHANGED <<maps, backend, rpVars>>

-----------------------------------------------------------------------------
(* DB.Commit, DB.Rollback *)

\* lines 140 and 148
NotInTransaction(d) == d.tx = 0

\* (mutant) txDone is not set
MarkDoneForgotten(hs, h) == hs

\* lines 143 and 151
MarkDone(hs, h) == [hs EXCEPT ![h].txDone = TRUE]

Finish(op, fn, h) ==
    LET d == handles[h] IN
    IF NotInTransaction(d)
    THEN /\ lastOp' = [op |-> op, h |-> h, calls |-> <<>>,
                       res |-> [err |-> "ErrNotInTransaction"]]
         /\ UNCHANGED <<handles, txs>>
    ELSE /\ TxCallAllowed(d.tx, fn)
         /\ \E ok \in BOOLEAN :
              LET c == TxCall(d.tx, fn, ok, TRUE) IN
              /\ handles' = MarkDone(handles, h)
              /\ txs' = c.txs
              /\ lastOp' = [op |-> op, h |-> h, calls |-> <<c.call>>, res |-> [err |-> c.err]]

Commit(h) ==
    /\ Finish("Commit", "Tx.Commit", h)
    /\ UNCHANGED <<maps, backend, rpVars>>

Rollback(h) ==
    /\ Finish("Rollback", "Tx.Rollback", h)
    /\ UNCHANGED <<maps, backend, rpVars>>

-----------------------------------------------------------------------------
(* DB.Close *)

\* line 157
CloseRollsBack(d) == ~d.txDone

Close(h) ==
    LET d == handles[h] IN
    /\ IF d.tx # 0
       THEN IF CloseRollsBack(d)
            THEN /\ TxCallAllowed(d.tx, "Tx.Rollback")
                 /\ \E ok \in BOOLEAN :
                      LET c == TxCall(d.tx, "Tx.Rollback", ok, FALSE) IN
                      /\ txs' = c.txs
                      /\ lastOp' = [op |-> "Close", h |-> h, calls |-> <<c.call>>,
                                    res |-> [err |-> c.err]]
                 /\ UNCHANGED handles
            ELSE /\ lastOp' = [op |-> "Close", h |-> h, calls |-> <<>>, res |-> [err |-> "nil"]]
                 /\ UNCHANGED <<handles, txs>>
       ELSE /\ \E e \in {"nil", "backend"} :
                 lastOp' = [op |-> "Close", h |-> h, calls |-> <<[fn |-> "DB.Close"]>>,
                            res |-> [err |-> e]]
            /\ UNCHANGED <<handles, txs>>
    /\ UNCHANGED <<maps, backend, rpVars>>

-----------------------------------------------------------------------------
(* DB.preparedStmt statement by statement, called by concurrent goroutines. *)
(* A goroutine's pc names the statement it executes next.                   *)

MaxGoroutines == 2
MaxConcHandles == 2

Goroutines == 1..MaxGoroutines

\* the zero sync.RWMutex
FreeMutex == [readers |-> {}, writer |-> 0]

\* a goroutine outside preparedStmt; prep lists the outcomes of the
\* sqlDb.Prepare calls its call has made
NotRunning ==
    [pc |-> "idle", h |-> 0, s |-> <<>>, look |-> NotFound, stmt |-> NoStmt, prep |-> <<>>]

\* the state of the goroutines while the caller is sequential
GoUnused ==
    /\ gs = [g \in Goroutines |-> NotRunning]
    /\ mus = <<>>

\* sync.RWMutex.RLock returns once no goroutine holds the mutex for writing
CanRLock(mu) == mu.writer = 0

RLocked(mu, g) == [mu EXCEPT !.readers = @ \cup {g}]

\* (mutant) the read lock is kept
RUnlockedNever(mu, g) == mu

\* sync.RWMutex.RUnlock
RUnlocked(mu, g) == [mu EXCEPT !.readers = @ \ {g}]

\* sync.RWMutex.Lock returns once no goroutine holds the mutex at all
CanLock(mu) == mu.writer = 0 /\ mu.readers = {}

Locked(mu, g) == [mu EXCEPT !.writer = g]

\* sync.RWMutex.Unlock
Unlocked(mu, g) == [mu EXCEPT !.writer = 0]

\* lines 90-91, 103-104, 117-118: a call with arguments enters preparedStmt
\* with the text it sends
GoCall(g, h, s) ==
    /\ gs[g].pc = "idle"
    /\ gs' = [gs EXCEPT ![g] = [NotRunning EXCEPT !.pc = "RLock", !.h = h, !.s = s]]
    /\ UNCHANGED <<handles, maps, txs, mus>>

\* line 186
GoRLock(g) ==
    /\ gs[g].pc = "RLock"
    /\ CanRLock(mus[gs[g].h])
    /\ mus' = [mus EXCEPT ![gs[g].h] = RLocked(@, g)]
    /\ gs' = [gs EXCEPT ![g].pc = "read"]
    /\ UNCHANGED <<handles, maps, txs>>

\* line 187
GoRead(g) ==
    /\ gs[g].pc = "read"
    /\ gs' = [gs EXCEPT ![g].pc = "RUnlock",
                        ![g].look = CacheLookup(maps, handles[gs[g].h], CrcTable[gs[g].s])]
    /\ UNCHANGED <<handles, maps, txs, mus>>

\* lines 188-189
GoRUnlock(g) ==
    /\ gs[g].pc = "RUnlock"
    /\ mus' = [mus EXCEPT ![gs[g].h] = RUnlocked(@, g)]
    /\ gs' = [gs EXCEPT ![g].pc = IF cacheHit(gs[g].look, gs[g].s) THEN "hit" ELSE "Prepare"]
    /\ UNCHANGED <<handles, maps, txs>>

\* lines 190-193
GoHit(g) ==
    /\ gs[g].pc = "hit"
    /\ gs' = [gs EXCEPT ![g].pc = "exec",
                        ![g].stmt = boundStmt(handles[gs[g].h], gs[g].look.cached.stmt).stmt]
    /\ UNCHANGED <<handles, maps, txs, mus>>

\* lines 195-199
GoPrepare(g, prepOk) ==
    /\ gs[g].pc = "Prepare"
    /\ gs' = [gs EXCEPT ![g].pc = IF prepOk THEN "Lock" ELSE "exec",
                        ![g].prep = Append(@, prepOk),
                        ![g].stmt = IF prepOk
                                    THEN [text |-> gs[g].s, tx |-> 0, prepared |-> TRUE]
                                    ELSE NoStmt]
    /\ UNCHANGED <<handles, maps, txs, mus>>

\* line 200
GoLock(g) ==
    /\ gs[g].pc = "Lock"
    /\ CanLock(mus[gs[g].h])
    /\ mus' = [mus EXCEPT ![gs[g].h] = Locked(@, g)]
    /\ gs' = [gs EXCEPT ![g].pc = "store"]
    /\ UNCHANGED <<handles, maps, txs>>

\* lines 201-204
GoStore(g) ==
    LET ins == cacheInsert(handles, maps, gs[g].h, CrcTable[gs[g].s],
                           [sql |-> gs[g].s, stmt |-> gs[g].stmt])
    IN  /\ gs[g].pc = "store"
        /\ handles' = ins.handles
        /\ maps' = ins.maps
        /\ gs' = [gs EXCEPT ![g].pc = "Unlock"]
        /\ UNCHANGED <<txs, mus>>

\* line 205
GoUnlock(g) ==
    /\ gs[g].pc = "Unlock"
    /\ mus' = [mus EXCEPT ![gs[g].h] = Unlocked(@, g)]
    /\ gs' = [gs EXCEPT ![g].pc = "bind"]
    /\ UNCHANGED <<handles, maps, txs>>

\* lines 206-209
GoBind(g) ==
    /\ gs[g].pc = "bind"
    /\ gs' = [gs EXCEPT ![g].pc = "exec",
                        ![g].stmt = boundStmt(handles[gs[g].h], gs[g].stmt).stmt]
    /\ UNCHANGED <<handles, maps, txs, mus>>

\* lines 92-95, 105-108, 119-122: the execution request, after which the
\* call returns
GoExec(g) ==
    /\ gs[g].pc = "exec"
    /\ gs' = [gs EXCEPT ![g].pc = "done"]
    /\ UNCHANGED <<handles, maps, txs, mus>>

\* line 133: the copy of a mutex is held as the original is at that moment,
\* by holders (written as negative numbers) that will never release the copy
CopiedMutex(mu) ==
    [readers |-> {IF g > 0 THEN 0 - g ELSE g : g \in mu.readers},
     writer |-> IF mu.writer > 0 THEN 0 - mu.writer ELSE mu.writer]

\* lines 129-136 while goroutines run: dc := *d copies d.mu as it is, and
\* d.cache, into the new handle
GoBegin(h) ==
    /\ ~InTransaction(handles[h])
    /\ txs' = Append(txs, [state |-> "active", rollbacks |-> 0, finished |-> FALSE])
    /\ handles' = BeginHandles(handles, h, Len(txs) + 1)
    /\ mus' = Append(mus, CopiedMutex(mus[h]))
    /\ UNCHANGED <<maps, gs>>

-----------------------------------------------------------------------------
(* DB.QuoteString, DB.QuoteIdentifier *)

\* longest text handed to QuoteString and QuoteIdentifier
MaxQuoteLen == 3

\* the quote characters a backend may answer with ("^" stands for the
\* backquote), and the bytes of the texts
QuoteChars == {"'", "\"", "^"}
QuoteAlphabet == {"'", "\"", "^", "a"}

\* strings.Replace(s, old, new, -1) for an old of one byte
RECURSIVE ReplaceByte(_, _, _)
ReplaceByte(s, old, new) ==
    IF s = <<>> THEN <<>>
    ELSE (IF Head(s) = old THEN new ELSE <<Head(s)>>) \o ReplaceByte(Tail(s), old, new)

\* DB.quoteWith
quoteWith(s, q) ==
    LET escaped == IF q = "'" THEN ReplaceByte(s, "'", <<"'", "'">>)
                   ELSE ReplaceByte(s, q, <<"\\", q>>)
    IN  <<q>> \o escaped \o <<q>>

\* QuoteString and QuoteIdentifier on handle h; q is the quote character the
\* backend answers with
Quote(op, h, s, q) ==
    /\ lastOp' = [op |-> op, h |-> h, calls |-> <<>>, s |-> s, q |-> q,
                  res |-> quoteWith(s, q)]
    /\ UNCHANGED <<handles, maps, txs, backend, rpVars>>

QuoteString(h, s, q) == Quote("QuoteString", h, s, q)

QuoteIdentifier(h, s, q) == Quote("QuoteIdentifier", h, s, q)

-----------------------------------------------------------------------------
(* package orm: the models and model.Map *)

\* the registered models; NoModel is the nil *model of an empty chain
Models == {"A", "B", "C", "D"}
NoModel == "nil"

\* model.name and model.shortName as byte strings; B and D have no short name
ModelName == [m \in Models |-> <<m>>]
ShortName == "A" :> <<"a">> @@ "B" :> <<>> @@ "C" :> <<"c">> @@ "D" :> <<>>

\* the non-empty names a model goes by
Seq1Names == {ModelName[m] : m \in Models} \cup ({ShortName[m] : m \in Models} \ {<<>>})

\* fields.QNameMap with fields.QuotedNames and fields.Types: the column and
\* the type of every qualified name of a model
ModelFields ==
    "A" :> (<<"x">> :> [name |-> <<"A", "x">>, typ |-> "int"] @@
            <<"y">> :> [name |-> <<"A", "y">>, typ |-> "string"])
 @@ "B" :> (<<"x">> :> [name |-> <<"B", "x">>, typ |-> "string"] @@
            <<"z">> :> [name |-> <<"B", "z">>, typ |-> "int"])
 @@ "C" :> (<<"y">> :> [name |-> <<"C", "y">>, typ |-> "int"])
 @@ "D" :> (<<"x">> :> [name |-> <<"D", "x">>, typ |-> "int"] @@
            <<"w">> :> [name |-> <<"D", "w">>, typ |-> "time"])

\* strings.IndexByte: the index from 0 of the first c in s, -1 if there is none
RECURSIVE IndexByteFrom(_, _, _)
IndexByteFrom(s, c, i) ==
    IF i > Len(s) THEN -1
    ELSE IF s[i] = c THEN i - 1
    ELSE IndexByteFrom(s, c, i + 1)

IndexByte(s, c) == IndexByteFrom(s, c, 1)

\* (mutant) the name before the separator is not compared with the model's
NotThisModelNever(m, name) == FALSE

\* line 96: the name before the separator is not one of the model's names
NotThisModel(m, name) == name # ModelName[m] /\ name # ShortName[m]

\* model.Map: the column and type of qname on model m, or an error
ModelMap(m, qname) ==
    LET sep == IndexByte(qname, "|")
        name == SubSeq(qname, 1, sep)
        field == IF sep >= 0 THEN SubSeq(qname, sep + 2, Len(qname)) ELSE qname
    IN  IF sep >= 0 /\ NotThisModel(m, name)
        THEN [err |-> "errNotThisModel", arg |-> name]
        ELSE IF field \in DOMAIN ModelFields[m]
        THEN [err |-> "nil", name |-> ModelFields[m][field].name,
              typ |-> ModelFields[m][field].typ]
        ELSE [err |-> "errCantMap", arg |-> field]

-----------------------------------------------------------------------------
(* package orm: the reference graph and the join chain *)

MaxRefs == 2
MaxChain == 3
MaxImplicitChain == 4

\* the join types a caller asks for; references are stored with the zero type
JoinTypes == {"InnerJoin", "LeftJoin"}
StoredJoinType == "InnerJoin"

\* query.Q: nil, an equality (*query.Eq) or another kind of condition; field
\* names the model the condition is held by, value is what it compares with
NoQ == [kind |-> "nil"]
Cond(kind, field, value) == [kind |-> kind, field |-> field, value |-> value]

\* the condition a caller passes to an explicit join
ExplicitQ == Cond("Eq", "caller", "given")

\* a join stored in model.modelReferences: its joinModel has the referenced
\* model, no skip mark and no join of its own
RefJoin(target, q) == [model |-> target, skip |-> FALSE, jtype |-> StoredJoinType, q |-> q]

\* the conditions model s may hold on D: equalities with one of two columns
\* of D and a comparison that is not an equality
RefConds(s) == {Cond("Eq", s, "D.x"), Cond("Eq", s, "D.w"), Cond("Lt", s, "D.x")}

\* the reference lists of up to n joins s may hold on D
RefLists(s, n) == SeqsUpTo({RefJoin("D", c) : c \in RefConds(s)}, n)

NoRefs == [s \in Models |-> [m \in Models |-> <<>>]]

\* model.modelReferences of every model: A references B and C once each, B
\* holds up to MaxRefs references to D and C up to one
Graph(bd, cd) ==
    [NoRefs EXCEPT !["A"]["B"] = <<RefJoin("B", Cond("Eq", "A", "B.x"))>>,
                   !["A"]["C"] = <<RefJoin("C", Cond("Eq", "A", "C.y"))>>,
                   !["B"]["D"] = bd,
                   !["C"]["D"] = cd]

Graphs == {Graph(bd, cd) : bd \in RefLists("B", MaxRefs), cd \in RefLists("C", 1)}

\* a chain is the sequence of its joinModel nodes from the root on: node i + 1
\* is join.model of node i, and jtype and q of node i + 1 are those of that
\* join. The empty sequence is a joinModel without a model.
RootNode(model) == [model |-> model, skip |-> FALSE, jtype |-> "none", q |-> NoQ]

\* lines 215-221: the references to model held by the nodes of the chain, in
\* the order of the walk
RECURSIVE Candidates(_, _, _, _)
Candidates(rs, ch, model, i) ==
    IF i > Len(ch) THEN <<>>
    ELSE rs[ch[i].model][model] \o Candidates(rs, ch, model, i + 1)

\* (mutant) several candidates are always taken as one
AllEqualAlways(c) == TRUE

\* lines 225-233: the first candidate is an equality and every other one is
\* an equality on the same model with the same value
AllEqual(c) ==
    /\ c[1].q.kind = "Eq"
    /\ \A i \in 2..Len(c) :
          /\ c[i].q.kind = "Eq"
          /\ c[1].model = c[i].model
          /\ c[1].q.value = c[i].q.value

\* (mutant) several candidates are never taken as one
CollapseNever(c) == c

\* lines 222-238
Collapse(c) == IF Len(c) > 1 /\ AllEqual(c) THEN SubSeq(c, 1, 1) ELSE c

\* (mutant) the clone keeps the join type stored in the reference
CloneJoinKeepsType(j, jt) == j

\* lines 241-242: the clone of the candidate with the requested join type
CloneJoin(j, jt) == [j EXCEPT !.jtype = jt]

\* (mutant) the explicit join is marked skipped
ExplicitJoinSkipped(model, q, jt) == [model |-> model, skip |-> TRUE, jtype |-> jt, q |-> q]

\* lines 252-256: the join of an explicit joinWith
ExplicitJoin(model, q, jt) == [model |-> model, skip |-> FALSE, jtype |-> jt, q |-> q]

\* (mutant) a chain without a root takes the join like any other chain
IsEmptyChainNever(ch) == FALSE

\* line 207: the joinModel has no model yet
IsEmptyChain(ch) == ch = <<>>

\* (mutant) a join nobody can resolve is appended all the same
CantJoinIgnored(ch, model, jt) ==
    [chain |-> Append(ch, ExplicitJoin(model, NoQ, jt)), ret |-> Len(ch) + 1, err |-> "nil"]

\* line 244
CantJoin(ch, model, jt) == [chain |-> ch, ret |-> 0, err |-> "cantJoin"]

\* (mutant) the join is stored in the root, whatever the root is joined with
JoinAtRoot(ch, j) == <<ch[1], j>>

\* lines 215-221 and 241, 249-252: the walk to the node without a join, which
\* takes the new join
JoinAtTail(ch, j) == Append(ch, j)

\* joinModel.joinWith on chain ch with reference graph rs: the chain after
\* the call, the position of the returned node (0 for nil) and the error
joinWith(rs, ch, model, q, jt) ==
    IF IsEmptyChain(ch)
    THEN [chain |-> <<RootNode(model)>>, ret |-> 1, err |-> "nil"]
    ELSE IF q = NoQ
    THEN LET c == Collapse(Candidates(rs, ch, model, 1)) IN
         CASE Len(c) = 1 -> [chain |-> JoinAtTail(ch, CloneJoin(c[1], jt)),
                             ret |-> Len(ch) + 1, err |-> "nil"]
           [] Len(c) = 0 -> CantJoin(ch, model, jt)
           [] OTHER -> [chain |-> ch, ret |-> 0, err |-> "ambiguous"]
    ELSE [chain |-> JoinAtTail(ch, ExplicitJoin(model, q, jt)),
          ret |-> Len(ch) + 1, err |-> "nil"]

\* joinModel.Map: qname is looked up on the model of every node of the
\* chain, and the matches are collected in the order of the walk
RECURSIVE MapCandidates(_, _, _)
MapCandidates(ch, qname, i) ==
    IF i > Len(ch) THEN <<>>
    ELSE LET r == ModelMap(ch[i].model, qname)
         IN  (IF r.err = "nil" THEN <<[name |-> r.name, typ |-> r.typ]>> ELSE <<>>)
                \o MapCandidates(ch, qname, i + 1)

\* (mutant) several matches resolve to the first one
MapResultFirst(c, qname) ==
    IF Len(c) = 0 THEN [err |-> "errCantMap", arg |-> qname]
    ELSE [err |-> "nil", name |-> c[1].name, typ |-> c[1].typ]

\* lines 328-336
MapResult(c, qname) ==
    CASE Len(c) = 0 -> [err |-> "errCantMap", arg |-> qname]
      [] Len(c) = 1 -> [err |-> "nil", name |-> c[1].name, typ |-> c[1].typ]
      [] OTHER -> [err |-> "errAmbiguous", arg |-> qname]

\* on a joinModel without a model, line 319 dereferences the nil *model
ChainMap(ch, qname) ==
    IF ch = <<>> THEN [err |-> "panic"]
    ELSE MapResult(MapCandidates(ch, qname, 1), qname)

\* joinModel.Fields: nil for a skipped node, the model's fields otherwise
Fields(n) == IF n.skip THEN "nil" ELSE ModelFields[n.model]

\* joinModel.Skip
Skip(n) == n.skip

\* model.namedReferences: the models m references, under their name and,
\* if they have one, their short name
NamedReferences(rs, m) ==
    {<<n, r>> \in (Seq1Names \X Models) :
        rs[m][r] # <<>> /\ (n = ModelName[r] \/ (n = ShortName[r] /\ n # <<>>))}

\* lines 268-291: the first node from i on whose model has a reference named
\* typ, as <<position, referenced model>>; <<0, NoModel>> if there is none
RECURSIVE NamedReference(_, _, _, _)
NamedReference(rs, ch, typ, i) ==
    IF i > Len(ch) THEN <<0, NoModel>>
    ELSE LET found == {e \in NamedReferences(rs, ch[i].model) : e[1] = typ}
         IN  IF found # {} THEN <<i, (CHOOSE e \in found : TRUE)[2]>>
             ELSE NamedReference(rs, ch, typ, i + 1)

\* line 281
MarkSkip(ch, i) == [ch EXCEPT ![i].skip = TRUE]

\* joinModel.joinWithField: the chain, the set of joined models and the
\* accumulated methods after the call, and the error
joinWithField(rs, ch, field, jt, mset, meths) ==
    LET pipe == IndexByte(field, "|")
        typ == SubSeq(field, 1, pipe)
        same == [chain |-> ch, models |-> mset, methods |-> meths, err |-> "nil"]
    IN  IF pipe < 0 THEN same
        ELSE IF ch = <<>> THEN [same EXCEPT !.err = "panic"]
        ELSE LET model == NamedReference(rs, ch, typ, 1)[2] IN
             IF model = NoModel \/ model \in mset THEN same
             ELSE LET r == joinWith(rs, ch, model, NoQ, jt) IN
                  IF r.err # "nil" THEN [same EXCEPT !.err = r.err]
                  ELSE [chain |-> MarkSkip(r.chain, r.ret),
                        models |-> mset \cup {model},
                        methods |-> Append(meths, model),
                        err |-> "nil"]

-----------------------------------------------------------------------------
(* joinModel.joinWithSort, joinModel.joinWithQuery *)

\* a condition on one field, and a combination of conditions: FieldName()
\* and SubQ() of a query.Q; a combination has no field name
FieldQ(field) == [field |-> field, subq |-> <<>>]
AndQ(qs) == [field |-> <<>>, subq |-> qs]

\* what a run of joinWithField calls works on: the chain, the set of joined
\* models, the accumulated methods, the error of the last call, and the
\* fields handed to joinWithField so far
FieldState(ch, mset, meths) ==
    [chain |-> ch, models |-> mset, methods |-> meths, err |-> "nil", fields |-> <<>>]

\* lines 297 and 305: one joinWithField call
FieldStep(rs, st, field, jt) ==
    LET r == joinWithField(rs, st.chain, field, jt, st.models, st.methods)
    IN  [chain |-> r.chain, models |-> r.models, methods |-> r.methods,
         err |-> r.err, fields |-> Append(st.fields, field)]

\* (mutant) the loop goes on after an error and returns the last result
RECURSIVE joinWithSortThrough(_, _, _, _, _)
joinWithSortThrough(rs, st, sort, i, jt) ==
    IF i > Len(sort) THEN st
    ELSE joinWithSortThrough(rs, FieldStep(rs, st, sort[i], jt), sort, i + 1, jt)

\* lines 296-301: the sort keys from the i-th on, up to the first error
RECURSIVE joinWithSortFrom(_, _, _, _, _)
joinWithSortFrom(rs, st, sort, i, jt) ==
    IF i > Len(sort) THEN st
    ELSE LET r == FieldStep(rs, st, sort[i], jt)
         IN  IF r.err # "nil" THEN r ELSE joinWithSortFrom(rs, r, sort, i + 1, jt)

\* joinModel.joinWithSort
joinWithSort(rs, ch, sort, jt, mset, meths) ==
    joinWithSortFrom(rs, FieldState(ch, mset, meths), sort, 1, jt)

\* lines 305-313: the field of q, then its sub-conditions from the first on,
\* each with its own sub-conditions, up to the first error
RECURSIVE joinWithQueryOn(_, _, _, _)
RECURSIVE joinWithSubQ(_, _, _, _, _)
joinWithQueryOn(rs, st, q, jt) ==
    LET r == FieldStep(rs, st, q.field, jt)
    IN  IF r.err # "nil" THEN r ELSE joinWithSubQ(rs, r, q.subq, 1, jt)

\* lines 308-312
joinWithSubQ(rs, st, qs, i, jt) ==
    IF i > Len(qs) THEN st
    ELSE LET r == joinWithQueryOn(rs, st, qs[i], jt)
         IN  IF r.err # "nil" THEN r ELSE joinWithSubQ(rs, r, qs, i + 1, jt)

\* joinModel.joinWithQuery
joinWithQuery(rs, ch, q, jt, mset, meths) ==
    joinWithQueryOn(rs, FieldState(ch, mset, meths), q, jt)

-----------------------------------------------------------------------------
(* Chains as objects: joinModel and join values by address, so that what    *)
(* clone copies and what it shares can be told apart.                       *)

\* no object allocated
NoHeap == [nodes |-> <<>>, joins |-> <<>>, roots |-> <<>>]

\* the nil *join
NoJoin == 0

\* a joinModel: its model, its skip mark, the address of its join
HeapNode(model, skip, join) == [model |-> model, skip |-> skip, join |-> join]

\* a join: the address of its joinModel, its type, its condition
HeapJoin(node, jt, q) == [model |-> node, jtype |-> jt, q |-> q]

HeapModels == {"A", "B", "D"}

\* model.modelReferences as addresses of stored joins: A holds a reference to
\* B (join 1) and one to D (join 2), B holds one to D (join 3)
HeapRefs ==
    [s \in HeapModels |-> [m \in HeapModels |->
        CASE s = "A" /\ m = "B" -> <<1>>
          [] s = "A" /\ m = "D" -> <<2>>
          [] s = "B" /\ m = "D" -> <<3>>
          [] OTHER -> <<>>]]

\* the stored joins and their joinModels, as the graph is after initialization
StoredHeap ==
    [nodes |-> <<HeapNode("B", FALSE, NoJoin), HeapNode("D", FALSE, NoJoin),
                 HeapNode("D", FALSE, NoJoin)>>,
     joins |-> <<HeapJoin(1, StoredJoinType, Cond("Eq", "A", "B.x")),
                 HeapJoin(2, StoredJoinType, Cond("Eq", "A", "D.x")),
                 HeapJoin(3, StoredJoinType, Cond("Eq", "B", "D.x"))>>,
     roots |-> <<>>]

\* (mutant) the clone of a joinModel keeps the join of the original
cloneModelShallow(h, a) ==
    [heap |-> [h EXCEPT !.nodes = Append(@, h.nodes[a])], addr |-> Len(h.nodes) + 1]

\* joinModel.clone and join.clone: the heap with the copies, and the address
\* of the copy
RECURSIVE cloneModel(_, _)
RECURSIVE cloneJoin(_, _)
cloneModel(h, a) ==
    IF h.nodes[a].join = NoJoin
    THEN [heap |-> [h EXCEPT !.nodes = Append(@, HeapNode(h.nodes[a].model, h.nodes[a].skip, NoJoin))],
          addr |-> Len(h.nodes) + 1]
    ELSE LET cj == cloneJoin(h, h.nodes[a].join)
         IN  [heap |-> [cj.heap EXCEPT !.nodes =
                           Append(@, HeapNode(h.nodes[a].model, h.nodes[a].skip, cj.addr))],
              addr |-> Len(cj.heap.nodes) + 1]

\* lines 141-147
cloneJoin(h, ja) ==
    LET cm == cloneModel(h, h.joins[ja].model)
    IN  [heap |-> [cm.heap EXCEPT !.joins =
                      Append(@, HeapJoin(cm.addr, h.joins[ja].jtype, h.joins[ja].q))],
         addr |-> Len(cm.heap.joins) + 1]

\* lines 249-251: the node without a join, from a on
RECURSIVE TailOf(_, _)
TailOf(h, a) ==
    IF h.nodes[a].join = NoJoin THEN a ELSE TailOf(h, h.joins[h.nodes[a].join].model)

\* lines 215-221: the addresses of the stored joins to model held by the
\* models of the nodes from a on
RECURSIVE HeapCandidates(_, _, _)
HeapCandidates(h, a, model) ==
    HeapRefs[h.nodes[a].model][model]
        \o (IF h.nodes[a].join = NoJoin THEN <<>>
            ELSE HeapCandidates(h, h.joins[h.nodes[a].join].model, model))

\* (mutant) the stored join itself becomes the join of the tail
ImplicitJoinShared(h, ja) == [heap |-> h, addr |-> ja]

\* line 241: candidates[0].clone()
ImplicitJoin(h, ja) == cloneJoin(h, ja)

\* joinModel.joinWith on the joinModel at address root
heapJoinWith(h, root, model, q, jt) ==
    IF h.nodes[root].model = NoModel
    THEN [heap |-> [h EXCEPT !.nodes[root].model = model], ret |-> root, err |-> "nil"]
    ELSE IF q = NoQ
    THEN LET cands == HeapCandidates(h, root, model)
             c == Collapse([i \in DOMAIN cands |->
                              [model |-> h.nodes[h.joins[cands[i]].model].model,
                               q |-> h.joins[cands[i]].q]])
         IN  CASE Len(c) = 1 ->
                    LET ij == ImplicitJoin(h, cands[1])
                        h2 == [ij.heap EXCEPT !.nodes[TailOf(h, root)].join = ij.addr,
                                              !.joins[ij.addr].jtype = jt]
                    IN  [heap |-> h2, ret |-> h2.joins[ij.addr].model, err |-> "nil"]
               [] Len(c) = 0 -> [heap |-> h, ret |-> 0, err |-> "cantJoin"]
               [] OTHER -> [heap |-> h, ret |-> 0, err |-> "ambiguous"]
    ELSE LET n == Len(h.nodes) + 1
             j == Len(h.joins) + 1
         IN  [heap |-> [h EXCEPT !.nodes = [Append(@, HeapNode(model, FALSE, NoJoin))
                                               EXCEPT ![TailOf(h, root)].join = j],
                                 !.joins = Append(@, HeapJoin(n, jt, q))],
              ret |-> n, err |-> "nil"]

\* lines 277-281 of joinWithField, for a field whose type names model
heapJoinWithField(h, root, model, jt) ==
    LET r == heapJoinWith(h, root, model, NoQ, jt)
    IN  IF r.err # "nil" THEN r
        ELSE [r EXCEPT !.heap.nodes[r.ret].skip = TRUE]

-----------------------------------------------------------------------------
(* sortModels.less *)

\* the deepest recursion of less the goroutine stack has room for
MaxDepth == 4

\* the models that are sorted
SortedModels == {"A", "B", "C"}

\* Fields().References of every model, as the set of models it references:
\* every graph on SortedModels, self-references and cycles included
ReferenceGraphs == [SortedModels -> SUBSET SortedModels]

\* lines 353-358: what one reference v of mi makes of the loop: "false" leaves
\* it with false, "true" goes on with the next reference; rec is what
\* less(v, mj) can return
LessOfReference(rec, mi, v, mj) ==
    IF v = mj THEN {"false"}
    ELSE IF v = mi THEN {"true"}
    ELSE rec

\* sortModels.less: what less(mi, mj) can return on graph g at recursion depth
\* d. The references are ranged over in any order; the loop returns false at
\* the first reference that says so and true after the last one. "overflow"
\* is the end of the program when the recursion exhausts the stack.
RECURSIVE less(_, _, _, _)
less(g, mi, mj, d) ==
    IF d > MaxDepth THEN {"overflow"}
    ELSE LET of == [v \in g[mi] |->
                       LessOfReference(IF v # mj /\ v # mi THEN less(g, v, mj, d + 1) ELSE {},
                                       mi, v, mj)]
         IN  {r \in {"false", "overflow"} : \E v \in g[mi] : r \in of[v]}
                \cup (IF \A v \in g[mi] : "true" \in of[v] THEN {"true"} ELSE {})

\* no call on a chain or a model has been made
NoOrmOp == [op |-> "none"]

\* the state of package orm while only the executor is used
OrmUnused ==
    /\ refs = NoRefs
    /\ chain = <<>>
    /\ models = {}
    /\ methods = <<>>
    /\ ormOp = NoOrmOp
    /\ heap = NoHeap

-----------------------------------------------------------------------------
(* The executor under a sequential caller: any call on any handle, in any  *)
(* order.  lastOp holds the call that has just run until the caller takes  *)
(* its result.                                                             *)

NoOp == [op |-> "none", h |-> 0, calls |-> <<>>]

Idle == lastOp = NoOp

Init ==
    /\ backend \in Backends
    /\ \E rp \in BOOLEAN : handles = <<OpenedDB(rp)>>
    /\ maps = <<>>
    /\ txs = <<>>
    /\ lastOp = NoOp
    /\ query = <<>>
    /\ rpResult = [called |-> FALSE]
    /\ OrmUnused
    /\ GoUnused

\* the caller takes the result of the call
Return ==
    /\ ~Idle
    /\ lastOp' = NoOp
    /\ UNCHANGED <<handles, maps, txs, backend, rpVars>>

\* transactions: up to MaxHandles handles, one text
Next ==
    /\ UNCHANGED <<ormVars, goVars, heap>>
    /\ \/ Idle /\ \E h \in DOMAIN handles : Begin(h)
       \/ Idle /\ \E h \in DOMAIN handles : Commit(h)
       \/ Idle /\ \E h \in DOMAIN handles : Rollback(h)
       \/ Idle /\ \E h \in DOMAIN handles : Close(h)
       \/ Idle /\ \E h \in DOMAIN handles, args \in BOOLEAN : Exec(h, Plumless, args)
       \/ Idle /\ \E h \in DOMAIN handles, args \in BOOLEAN : Query(h, Plumless, args)
       \/ Idle /\ \E h \in DOMAIN handles, args \in BOOLEAN : QueryRow(h, Plumless, args)
       \/ Return

Spec == Init /\ [][Next]_vars

\* the statement cache: every text, the opened handle and one transaction
CacheNext ==
    /\ UNCHANGED <<ormVars, goVars, heap>>
    /\ \/ Idle /\ \E h \in DOMAIN handles : Begin(h) /\ Len(handles') <= MaxCacheHandles
       \/ Idle /\ \E h \in DOMAIN handles : Commit(h)
       \/ Idle /\ \E h \in DOMAIN handles : Rollback(h)
       \/ Idle /\ \E h \in DOMAIN handles : Close(h)
       \/ Idle /\ \E h \in DOMAIN handles, q \in Queries, args \in BOOLEAN : Exec(h, q, args)
       \/ Idle /\ \E h \in DOMAIN handles, q \in Queries, args \in BOOLEAN : Query(h, q, args)
       \/ Idle /\ \E h \in DOMAIN handles, q \in Queries, args \in BOOLEAN : QueryRow(h, q, args)
       \/ Return

CacheSpec == Init /\ [][CacheNext]_vars

\* calls that follow each other directly, on the opened handle and one
\* transaction, with the two texts of equal checksum
PairNext ==
    /\ UNCHANGED <<ormVars, goVars, heap>>
    /\ \/ \E h \in DOMAIN handles : Begin(h) /\ Len(handles') <= MaxCacheHandles
       \/ \E h \in DOMAIN handles, q \in {Plumless, Buckeroo}, args \in BOOLEAN : Exec(h, q, args)
       \/ \E h \in DOMAIN handles, q \in {Plumless, Buckeroo}, args \in BOOLEAN : Query(h, q, args)
       \/ \E h \in DOMAIN handles, q \in {Plumless, Buckeroo}, args \in BOOLEAN : QueryRow(h, q, args)

PairSpec == Init /\ [][PairNext]_vars

\* quoting: every text of up to MaxQuoteLen bytes, every quote character
QuoteNext ==
    /\ UNCHANGED <<ormVars, goVars, heap>>
    /\ Idle
    /\ \/ \E h \in DOMAIN handles, s \in SeqsUpTo(QuoteAlphabet, MaxQuoteLen), q \in QuoteChars :
             QuoteString(h, s, q)
       \/ \E h \in DOMAIN handles, s \in SeqsUpTo(QuoteAlphabet, MaxQuoteLen), q \in QuoteChars :
             QuoteIdentifier(h, s, q)

QuoteSpec == Init /\ [][QuoteNext]_vars

\* the caller takes the result of the call and may call again
GoReturn(g) ==
    /\ gs[g].pc = "done"
    /\ gs' = [gs EXCEPT ![g] = NotRunning]
    /\ UNCHANGED <<handles, maps, txs, mus>>

\* the texts the goroutines send: two with one checksum
GoTexts == {Plumless, Buckeroo}

\* one opened handle, nothing cached, no goroutine started
GoInit ==
    /\ backend = "question"
    /\ handles = <<OpenedDB(FALSE)>>
    /\ maps = <<>>
    /\ txs = <<>>
    /\ lastOp = NoOp
    /\ query = <<>>
    /\ rpResult = [called |-> FALSE]
    /\ OrmUnused
    /\ gs = [g \in Goroutines |-> NotRunning]
    /\ mus = <<FreeMutex>>

\* goroutines calling with arguments on any handle, each goroutine running
\* preparedStmt one statement at a time, and Begin between any two statements
GoNext ==
    /\ UNCHANGED <<backend, lastOp, rpVars, ormVars, heap>>
    /\ \/ \E g \in Goroutines, h \in DOMAIN handles, s \in GoTexts : GoCall(g, h, s)
       \/ \E g \in Goroutines : GoRLock(g)
       \/ \E g \in Goroutines : GoRead(g)
       \/ \E g \in Goroutines : GoRUnlock(g)
       \/ \E g \in Goroutines : GoHit(g)
       \/ \E g \in Goroutines, prepOk \in BOOLEAN : GoPrepare(g, prepOk)
       \/ \E g \in Goroutines : GoLock(g)
       \/ \E g \in Goroutines : GoStore(g)
       \/ \E g \in Goroutines : GoUnlock(g)
       \/ \E g \in Goroutines : GoBind(g)
       \/ \E g \in Goroutines : GoExec(g)
       \/ \E g \in Goroutines : GoReturn(g)
       \/ \E h \in DOMAIN handles : GoBegin(h) /\ Len(handles') <= MaxConcHandles

GoSpec == GoInit /\ [][GoNext]_vars

\* a cache that holds text s only
CacheOf(s) ==
    CrcTable[s] :> [sql |-> s, stmt |-> [text |-> s, tx |-> 0, prepared |-> TRUE]]

\* the opened handle and a handle returned by its Begin, with a nil cache or
\* with one text cached before Begin; no goroutine started
SameTextInit ==
    /\ backend = "question"
    /\ \E before \in {<<>>} \cup GoTexts :
          /\ maps = IF before = <<>> THEN <<>> ELSE <<CacheOf(before)>>
          /\ handles = BeginHandles(<<[OpenedDB(FALSE) EXCEPT !.cache = Len(maps)]>>, 1, 1)
    /\ txs = <<[state |-> "active", rollbacks |-> 0, finished |-> FALSE]>>
    /\ lastOp = NoOp
    /\ query = <<>>
    /\ rpResult = [called |-> FALSE]
    /\ OrmUnused
    /\ gs = [g \in Goroutines |-> NotRunning]
    /\ mus = <<FreeMutex, FreeMutex>>

\* every goroutine has made its call and has its result
AllDone == \A g \in Goroutines : gs[g].pc = "done"

\* a goroutine makes the call the others make: handle h, text s, which the
\* handle has not cached
SameTextCall(g, h, s) ==
    /\ ~cacheHit(CacheLookup(maps, handles[h], CrcTable[s]), s) \/ \E o \in Goroutines : gs[o].pc # "idle"
    /\ \A o \in Goroutines : gs[o].pc # "idle" => gs[o].h = h /\ gs[o].s = s
    /\ GoCall(g, h, s)

\* the sequential call of the same text after the concurrent ones
LaterCall ==
    /\ AllDone
    /\ Idle
    /\ Exec(gs[1].h, gs[1].s, TRUE)

\* concurrent calls of one text on one handle, each goroutine calling once,
\* and sequential calls of the text after them
SameTextNext ==
    \/ /\ UNCHANGED <<backend, lastOp, rpVars, ormVars, heap>>
       /\ \/ \E g \in Goroutines, h \in DOMAIN handles, s \in GoTexts : SameTextCall(g, h, s)
          \/ \E g \in Goroutines : GoRLock(g)
          \/ \E g \in Goroutines : GoRead(g)
          \/ \E g \in Goroutines : GoRUnlock(g)
          \/ \E g \in Goroutines : GoHit(g)
          \/ \E g \in Goroutines, prepOk \in BOOLEAN : GoPrepare(g, prepOk)
          \/ \E g \in Goroutines : GoLock(g)
          \/ \E g \in Goroutines : GoStore(g)
          \/ \E g \in Goroutines : GoUnlock(g)
          \/ \E g \in Goroutines : GoBind(g)
          \/ \E g \in Goroutines : GoExec(g)
    \/ /\ UNCHANGED <<ormVars, goVars, heap>>
       /\ \/ LaterCall
          \/ Return

SameTextSpec == SameTextInit /\ [][SameTextNext]_vars

-----------------------------------------------------------------------------
(* Claims about the transaction handles (Spec) *)

IsExec(o) == o.op \in ExecOps

\* the number of sqlDb.Prepare calls among the backend calls cs
Prepares(cs) == Cardinality({i \in DOMAIN cs : cs[i].fn = "DB.Prepare"})

\* the step is a call of method op on handle h by an idle caller
Called(op, h) == Idle /\ lastOp'.op = op /\ lastOp'.h = h

\* what the guards of Begin, Commit and Rollback make of one call
C1_Step ==
    \A h \in DOMAIN handles :
        /\ (Called("Begin", h) /\ handles[h].tx # 0) =>
              /\ lastOp'.res.err = "ErrInTransaction"
              /\ lastOp'.calls = <<>>
              /\ UNCHANGED <<handles, maps, txs>>
        /\ ((Called("Commit", h) \/ Called("Rollback", h)) /\ handles[h].tx = 0) =>
              /\ lastOp'.res.err = "ErrNotInTransaction"
              /\ lastOp'.calls = <<>>
              /\ UNCHANGED <<handles, maps, txs>>

\* C1: Begin on a handle inside a transaction returns ErrInTransaction and
\* starts no backend transaction; Commit and Rollback on a handle outside a
\* transaction return ErrNotInTransaction and make no backend call; in each
\* case the state of the handles, caches and transactions is unchanged.
C1_TransactionGuards == [][C1_Step]_vars

\* Begin was refused on a handle whose transaction is already finished
C1_Witness ==
    /\ lastOp.op = "Begin"
    /\ handles[lastOp.h].tx # 0
    /\ handles[lastOp.h].txDone
    /\ lastOp.res.err = "ErrInTransaction"

\* what one step leaves of a handle outside a transaction
C2_Step ==
    \A h \in DOMAIN handles :
        handles[h].tx = 0 =>
            /\ handles'[h].tx = 0 /\ handles'[h].conn = 0 /\ handles'[h].txDone = FALSE
            /\ Called("Begin", h) =>
                  /\ lastOp'.res.err # "ErrInTransaction"
                  /\ lastOp'.calls = <<[fn |-> "DB.Begin"]>>
                  /\ lastOp'.res.err = "nil" => handles'[lastOp'.res.handle].tx = Len(txs')
            /\ (\E op \in ExecOps : Called(op, h)) =>
                  LET c == lastOp'.calls[Len(lastOp'.calls)]
                  IN  IF lastOp'.stmt = NoStmt THEN c.conn = 0 ELSE c.stmt.tx = 0

\* C2: Begin never changes the handle it is called on: whatever is called
\* on the returned handles, a handle outside a transaction keeps tx = nil,
\* conn = sqlDb and txDone = false, runs its statements on the plain
\* connection, and Begin on it is not refused.
C2_BeginLeavesHandle == [][C2_Step]_vars

\* the opened handle has begun a second transaction after the first returned
\* handle was committed or rolled back
C2_Witness ==
    /\ lastOp.op = "Begin" /\ lastOp.h = 1 /\ lastOp.res.err = "nil"
    /\ Len(handles) = 3
    /\ handles[2].txDone
    /\ handles[1].tx = 0

\* what one step makes of a handle on which Commit or Rollback was called
C38_Step ==
    \A h \in DOMAIN handles :
        (handles[h].tx # 0 /\ handles[h].txDone) =>
            /\ handles'[h].tx = handles[h].tx
            /\ handles'[h].conn = handles[h].tx
            /\ handles'[h].txDone
            /\ Called("Begin", h) =>
                  lastOp'.res.err = "ErrInTransaction" /\ lastOp'.calls = <<>>
            /\ Called("Commit", h) =>
                  /\ lastOp'.calls = <<[fn |-> "Tx.Commit", tx |-> handles[h].tx]>>
                  /\ lastOp'.res.err # "ErrNotInTransaction"
            /\ Called("Rollback", h) =>
                  /\ lastOp'.calls = <<[fn |-> "Tx.Rollback", tx |-> handles[h].tx]>>
                  /\ lastOp'.res.err # "ErrNotInTransaction"
            /\ (\E op \in ExecOps : Called(op, h)) =>
                  LET c == lastOp'.calls[Len(lastOp'.calls)]
                  IN  IF lastOp'.stmt = NoStmt
                      THEN c.conn = handles[h].tx
                      ELSE c.stmt.tx = handles[h].tx

\* C38: a handle in a transaction on which Commit or Rollback was called,
\* with or without success, stays as it is: Begin on it returns
\* ErrInTransaction, Commit and Rollback are forwarded to its transaction
\* and do not return ErrNotInTransaction, and Exec, Query and QueryRow run on
\* its transaction, not on the plain connection.
C38_StaysTransactional == [][C38_Step]_vars

\* Commit failed on the backend, and a later Rollback on the same handle was
\* forwarded to the finished transaction
C38_Witness ==
    /\ lastOp.op = "Rollback"
    /\ handles[lastOp.h].txDone
    /\ txs[handles[lastOp.h].tx].rollbacks = 1
    /\ lastOp.calls = <<[fn |-> "Tx.Rollback", tx |-> handles[lastOp.h].tx]>>
    /\ lastOp.res.err = "ErrTxDone"

\* C4 (as claimed): once Close was called on a handle in a transaction on
\* which neither Commit nor Rollback was called, its transaction has received
\* exactly one Rollback call, however many times Close was called.
C4_CloseRollsBackOnce ==
    (lastOp.op = "Close" /\ handles[lastOp.h].tx # 0 /\ ~txs[handles[lastOp.h].tx].finished)
        => txs[handles[lastOp.h].tx].rollbacks = 1

\* what Close does once the caller has finished the transaction
C5_Step ==
    \A h \in DOMAIN handles :
        (Called("Close", h) /\ handles[h].tx # 0 /\ txs[handles[h].tx].finished) =>
            /\ lastOp'.calls = <<>>
            /\ lastOp'.res.err = "nil"
            /\ UNCHANGED <<handles, maps, txs>>

\* C5: Close on a handle in a transaction on which Commit or Rollback was
\* called makes no backend call, returns nil and changes nothing.
C5_CloseAfterFinish == [][C5_Step]_vars

\* Close was called after Commit or Rollback and did nothing
C5_Witness ==
    /\ lastOp.op = "Close"
    /\ handles[lastOp.h].tx # 0
    /\ txs[handles[lastOp.h].tx].finished
    /\ lastOp.calls = <<>>

-----------------------------------------------------------------------------
(* Claims about the statement cache (CacheSpec, PairSpec) *)

\* whether a lookup of text s through handle h finds a usable entry
Finds(h, s) == cacheHit(CacheLookup(maps, handles[h], CrcTable[s]), s)

\* C3 (as claimed): a handle returned by Begin and the handle it was begun
\* from find the same texts in the cache, whenever Begin was called.
C3_SharedCache ==
    \A h \in DOMAIN handles, s \in SentTexts : Finds(h, s) <=> Finds(1, s)

\* C8 (as claimed): two calls of Exec, Query or QueryRow that follow each
\* other with the same rewritten text make exactly one Prepare call together,
\* and the second finds the statement in the cache.
C8_Original ==
    [][(IsExec(lastOp) /\ IsExec(lastOp') /\ lastOp'.h = lastOp.h /\ lastOp'.sent = lastOp.sent)
          => /\ Prepares(lastOp.calls) + Prepares(lastOp'.calls) = 1
             /\ lastOp'.hit]_vars

\* the second of two calls that follow each other
C8_Step ==
    (/\ IsExec(lastOp) /\ IsExec(lastOp')
     /\ lastOp'.h = lastOp.h /\ lastOp'.sent = lastOp.sent
     /\ lastOp.args /\ lastOp'.args
     /\ lastOp.stmt # NoStmt)
        => /\ lastOp'.hit
           /\ Prepares(lastOp'.calls) = 0
           /\ lastOp'.stmt = lastOp.stmt
           /\ Prepares(lastOp.calls) = (IF lastOp.hit THEN 0 ELSE 1)

\* a call that obtained a statement leaves it where the next lookup finds it
C8_Cached ==
    (IsExec(lastOp) /\ lastOp.args /\ lastOp.stmt # NoStmt)
        => /\ Finds(lastOp.h, lastOp.sent)
           /\ Prepares(lastOp.calls) = (IF lastOp.hit THEN 0 ELSE 1)

\* C8 (amended): when both calls are on one handle with at least one
\* argument and the first call obtained a statement, the second call finds
\* it in the cache, makes no Prepare call and uses the same statement; the
\* first call made one Prepare call, or none if it found the statement itself.
C8_PreparedOnce == [][C8_Step]_vars /\ []C8_Cached

\* the second of two calls found the statement prepared by the first
C8_Witness ==
    /\ IsExec(lastOp) /\ lastOp.args /\ lastOp.hit
    /\ lastOp.stmt.text = lastOp.sent
    /\ Prepares(lastOp.calls) = 0

\* C9: a statement returned by preparedStmt for text s was prepared from s;
\* an entry stored under the checksum of s with another text is not used,
\* s is prepared instead, and the entries of every cache hold a statement
\* prepared from their own text under the checksum of that text.
C9_StatementOfText ==
    /\ (IsExec(lastOp) /\ lastOp.args) =>
          /\ lastOp.stmt # NoStmt => lastOp.stmt.text = lastOp.sent
          /\ (lastOp.look.ok /\ lastOp.look.cached.sql # lastOp.sent) =>
                /\ ~lastOp.hit
                /\ lastOp.calls[1].fn = "DB.Prepare"
                /\ lastOp.calls[1].sql = lastOp.sent
    /\ \A m \in DOMAIN maps : \A k \in DOMAIN maps[m] :
          /\ maps[m][k].stmt.text = maps[m][k].sql
          /\ CrcTable[maps[m][k].sql] = k

\* Buckeroo was looked up while the cache held Plumless under the same
\* checksum, and a statement prepared from Buckeroo was returned
C9_Witness ==
    /\ IsExec(lastOp) /\ lastOp.args
    /\ lastOp.sent = Buckeroo
    /\ lastOp.look.ok /\ lastOp.look.cached.sql = Plumless
    /\ lastOp.stmt.text = Buckeroo

\* whether the call o tried to prepare its text and failed
PrepareFailed(o) ==
    /\ IsExec(o) /\ o.args /\ Len(o.calls) > 0
    /\ o.calls[1].fn = "DB.Prepare" /\ ~o.calls[1].ok

\* what a call makes of a failed prepare
C10_Step ==
    \A h \in DOMAIN handles :
        ((Called("Exec", h) \/ Called("Query", h)) /\ PrepareFailed(lastOp')) =>
            /\ Len(lastOp'.calls) = 2
            /\ lastOp'.calls[2].fn = "conn." \o lastOp'.op
            /\ lastOp'.calls[2].sql = lastOp'.sent
            /\ lastOp'.calls[2].conn = handles[h].conn
            /\ handles[h].tx # 0 => lastOp'.calls[2].conn = handles[h].tx
            /\ lastOp'.res = [val |-> lastOp'.calls[2].val, of |-> lastOp'.calls[2].fn]
            /\ lastOp'.stmt = NoStmt
            /\ UNCHANGED <<handles, maps>>

\* C10: when the prepare fails, Exec and Query run the same text unprepared
\* on the handle's connection (the transaction inside one), leave the cache
\* as it was and return what that call returned.
C10_FallsBackUnprepared == [][C10_Step]_vars

\* inside a transaction the prepare failed and the unprepared call failed too
C10_Witness ==
    /\ lastOp.op = "Exec"
    /\ PrepareFailed(lastOp)
    /\ handles[lastOp.h].tx # 0
    /\ lastOp.res.val = "err"

\* whether the backend call c asks the backend to run SQL
IsExecution(c) == c.fn \in {"stmt." \o op : op \in ExecOps} \cup {"conn." \o op : op \in ExecOps}

\* the execution requests among the backend calls cs, in order
Executions(cs) == SelectSeq(cs, IsExecution)

\* C11: what a handle inside a transaction executes runs in its transaction:
\* a statement found in the cache or just prepared on sqlDb is passed through
\* tx.Stmt of the handle's transaction before it is run, an unprepared call
\* goes to the transaction, and the cache holds only statements as prepared
\* on sqlDb, never transaction-bound ones.
C11_RunsInTransaction ==
    /\ (IsExec(lastOp) /\ handles[lastOp.h].tx # 0) =>
          LET t == handles[lastOp.h].tx
              run == lastOp.calls[Len(lastOp.calls)]
          IN  /\ lastOp.stmt = NoStmt => (run.fn = "conn." \o lastOp.op /\ run.conn = t)
              /\ lastOp.stmt # NoStmt =>
                    /\ run.fn = "stmt." \o lastOp.op
                    /\ run.stmt.tx = t
                    /\ Len(lastOp.calls) >= 2
                    /\ lastOp.calls[Len(lastOp.calls) - 1] =
                          [fn |-> "Tx.Stmt", tx |-> t, stmt |-> TxStmt(0, run.stmt)]
    /\ \A m \in DOMAIN maps : \A k \in DOMAIN maps[m] : maps[m][k].stmt.tx = 0

\* a handle inside a transaction found its text in the cache and ran the
\* statement bound to its transaction
C11_Witness ==
    /\ IsExec(lastOp) /\ lastOp.args /\ lastOp.hit
    /\ handles[lastOp.h].tx # 0
    /\ lastOp.stmt.tx = handles[lastOp.h].tx
    /\ lastOp.look.cached.stmt.tx = 0

\* C12: a call of Exec, Query or QueryRow sends at most one execution
\* request to the backend; when the prepared statement fails, its error is
\* what the caller gets and the unprepared call is not made.
C12_NoRetry ==
    IsExec(lastOp) =>
        LET ex == Executions(lastOp.calls) IN
        /\ Len(ex) = 1
        /\ lastOp.res = [val |-> ex[1].val, of |-> ex[1].fn]
        /\ lastOp.stmt # NoStmt =>
              /\ ex[1] = stmtCall(lastOp.op, lastOp.stmt, lastOp.res.val)
              /\ \A i \in DOMAIN lastOp.calls : lastOp.calls[i].fn # "conn." \o lastOp.op

\* a prepared statement was executed and failed
C12_Witness ==
    /\ IsExec(lastOp) /\ lastOp.stmt # NoStmt
    /\ lastOp.res = [val |-> "err", of |-> "stmt." \o lastOp.op]

-----------------------------------------------------------------------------
(* A direct call of replacePlaceholders on every text up to MaxLen *)

NotCalled == [called |-> FALSE]

RPInit ==
    /\ backend \in Backends
    /\ query \in SeqsUpTo(Alphabet, MaxLen)
    /\ rpResult = NotCalled
    /\ handles = <<>>
    /\ maps = <<>>
    /\ txs = <<>>
    /\ lastOp = NoOp
    /\ OrmUnused
    /\ GoUnused

RPCall ==
    /\ ~rpResult.called
    /\ rpResult' = [called |-> TRUE,
                    scans |-> [k \in 1..(Len(query) + 1) |-> Scan(backend, query, k - 1)],
                    out |-> replacePlaceholders(backend, query)]
    /\ UNCHANGED <<query, backend, dbVars, ormVars, goVars, heap>>

RPNext == RPCall

RewriteSpec == RPInit /\ [][RPNext]_vars

-----------------------------------------------------------------------------
(* The join chain of one query under a sequential caller *)

\* longest qualified name handed to a direct model.Map call
MaxQName == 3

\* the state of package sql while only package orm is used
DbUnused ==
    /\ handles = <<>>
    /\ maps = <<>>
    /\ txs = <<>>
    /\ lastOp = NoOp
    /\ backend = "question"
    /\ query = <<>>
    /\ rpResult = NotCalled
    /\ GoUnused
    /\ heap = NoHeap

execVarsButHeap == <<handles, maps, txs, backend, lastOp, query, rpResult, gs, mus>>
execVars == <<execVarsButHeap, heap>>

\* a call of joinWith on the root of the chain
JoinWith(model, q, jt) ==
    LET r == joinWith(refs, chain, model, q, jt) IN
    /\ chain' = r.chain
    /\ ormOp' = [op |-> "joinWith", model |-> model, q |-> q, jt |-> jt,
                 ret |-> r.ret, err |-> r.err]
    /\ UNCHANGED <<refs, models, methods, execVars>>

\* a call of joinWithField on the root of the chain
JoinWithField(field, jt) ==
    LET r == joinWithField(refs, chain, field, jt, models, methods) IN
    /\ chain' = r.chain
    /\ models' = r.models
    /\ methods' = r.methods
    /\ ormOp' = [op |-> "joinWithField", field |-> field, jt |-> jt, err |-> r.err]
    /\ UNCHANGED <<refs, execVars>>

\* a call of joinWithSort on the root of the chain
JoinWithSort(sort, jt) ==
    LET r == joinWithSort(refs, chain, sort, jt, models, methods) IN
    /\ chain' = r.chain
    /\ models' = r.models
    /\ methods' = r.methods
    /\ ormOp' = [op |-> "joinWithSort", sort |-> sort, jt |-> jt, err |-> r.err,
                 fields |-> r.fields, joined |-> Len(r.chain) - Len(chain)]
    /\ UNCHANGED <<refs, execVars>>

\* a call of joinWithQuery on the root of the chain
JoinWithQuery(q, jt) ==
    LET r == joinWithQuery(refs, chain, q, jt, models, methods) IN
    /\ chain' = r.chain
    /\ models' = r.models
    /\ methods' = r.methods
    /\ ormOp' = [op |-> "joinWithQuery", q |-> q, jt |-> jt, err |-> r.err,
                 fields |-> r.fields, joined |-> Len(r.chain) - Len(chain)]
    /\ UNCHANGED <<refs, execVars>>

\* a call of Map on the root of the chain
Map(qname) ==
    /\ ormOp' = [op |-> "Map", qname |-> qname, res |-> ChainMap(chain, qname)]
    /\ UNCHANGED <<refs, chain, models, methods, execVars>>

\* a call of Map on model m
MapOnModel(m, qname) ==
    /\ ormOp' = [op |-> "model.Map", model |-> m, qname |-> qname,
                 res |-> ModelMap(m, qname)]
    /\ UNCHANGED <<refs, chain, models, methods, execVars>>

\* joins: every reference graph of Graphs, chains of up to MaxChain nodes
JoinInit ==
    /\ refs \in Graphs
    /\ chain = <<>>
    /\ models = {}
    /\ methods = <<>>
    /\ ormOp = NoOrmOp
    /\ DbUnused

JoinNext ==
    \E model \in Models, q \in {NoQ, ExplicitQ}, jt \in JoinTypes :
        JoinWith(model, q, jt) /\ Len(chain') <= MaxChain

JoinSpec == JoinInit /\ [][JoinNext]_vars

\* implicit joins only, on chains of up to MaxImplicitChain nodes
ImplicitNext ==
    \E model \in Models, jt \in JoinTypes :
        JoinWith(model, NoQ, jt) /\ Len(chain') <= MaxImplicitChain

ImplicitSpec == JoinInit /\ [][ImplicitNext]_vars

\* a type name and a field name joined by the separator
Qualified(typ, field) == typ \o <<"|">> \o field

\* the names looked up on a chain: fields of one model, of several and of
\* none, alone and under a type name
FieldNames == {<<"x">>, <<"y">>, <<"z">>, <<"w">>, <<"v">>}
TypeNames == {<<"A">>, <<"a">>, <<"B">>, <<"D">>, <<"E">>, <<>>}
MapNames == FieldNames \cup {Qualified(n, f) : n \in TypeNames, f \in {<<"x">>, <<"w">>}}

\* field mapping: one reference graph, joins by joinWith and joinWithField
ChainMapInit ==
    /\ refs = Graph(<<RefJoin("D", Cond("Eq", "B", "D.x"))>>, <<>>)
    /\ chain = <<>>
    /\ models = {}
    /\ methods = <<>>
    /\ ormOp = NoOrmOp
    /\ DbUnused

ChainMapNext ==
    \/ \E model \in Models, q \in {NoQ, ExplicitQ} :
          JoinWith(model, q, "InnerJoin") /\ Len(chain') <= MaxChain
    \/ \E n \in TypeNames :
          JoinWithField(Qualified(n, <<"x">>), "LeftJoin") /\ Len(chain') <= MaxChain
    \/ \E qname \in MapNames : Map(qname)

ChainMapSpec == ChainMapInit /\ [][ChainMapNext]_vars

\* longest chain built from fields, and longest list of sort keys
MaxFieldChain == 3
MaxSort == 2

\* the fields of conditions and sort keys: under the names of referenced
\* models, under a name no model has, and without a type
QueryFields == {Qualified(<<"B">>, <<"x">>), Qualified(<<"D">>, <<"x">>),
                Qualified(<<"c">>, <<"y">>), <<"x">>}

\* conditions of nesting depth one to three
FieldQs == {FieldQ(f) : f \in QueryFields}
Qs == FieldQs
        \cup {AndQ(<<a, b>>) : a, b \in FieldQs}
        \cup {AndQ(<<a, AndQ(<<b, c>>)>>) : a, b, c \in FieldQs}

\* the graphs fields are joined on: B with no, one and two references to D,
\* C with none and with one
FieldGraphs ==
    {Graph(bd, cd) :
        bd \in {<<>>, <<RefJoin("D", Cond("Eq", "B", "D.x"))>>,
                <<RefJoin("D", Cond("Eq", "B", "D.x")), RefJoin("D", Cond("Eq", "B", "D.w"))>>},
        cd \in {<<>>, <<RefJoin("D", Cond("Eq", "C", "D.x"))>>}}

FieldInit ==
    /\ refs \in FieldGraphs
    /\ chain = <<>>
    /\ models = {}
    /\ methods = <<>>
    /\ ormOp = NoOrmOp
    /\ DbUnused

\* the caller takes the result of the call
OrmReturn ==
    /\ ormOp # NoOrmOp
    /\ ormOp' = NoOrmOp
    /\ UNCHANGED <<refs, chain, models, methods, execVars>>

\* joins from fields: joins by joinWith, joinWithField, joinWithSort and
\* joinWithQuery, one call after the other
FieldCall ==
    \/ \E model \in Models, q \in {NoQ, ExplicitQ} :
          JoinWith(model, q, "InnerJoin") /\ Len(chain') <= MaxFieldChain
    \/ \E n \in TypeNames, f \in {<<"x">>} :
          JoinWithField(Qualified(n, f), "LeftJoin") /\ Len(chain') <= MaxFieldChain
    \/ \E f \in QueryFields :
          JoinWithField(f, "LeftJoin") /\ Len(chain') <= MaxFieldChain
    \/ \E sort \in SeqsUpTo(QueryFields, MaxSort) :
          JoinWithSort(sort, "LeftJoin") /\ Len(chain') <= MaxFieldChain
    \/ \E q \in Qs :
          JoinWithQuery(q, "LeftJoin") /\ Len(chain') <= MaxFieldChain

FieldNext ==
    \/ ormOp = NoOrmOp /\ FieldCall
    \/ OrmReturn

FieldSpec == FieldInit /\ [][FieldNext]_vars

\* most chains, and most nodes of a chain, on the heap
MaxHeapChains == 2
MaxHeapLen == 3

\* the number of nodes of the chain that starts at address a
RECURSIVE HeapLen(_, _)
HeapLen(h, a) ==
    IF h.nodes[a].join = NoJoin THEN 1 ELSE 1 + HeapLen(h, h.joins[h.nodes[a].join].model)

\* a query gets its chain: &joinModel{}
HeapNew ==
    /\ Len(heap.roots) < MaxHeapChains
    /\ heap' = [heap EXCEPT !.nodes = Append(@, HeapNode(NoModel, FALSE, NoJoin)),
                            !.roots = Append(@, Len(heap.nodes) + 1)]
    /\ ormOp' = [op |-> "new", c |-> Len(heap.roots) + 1, err |-> "nil"]
    /\ UNCHANGED <<refs, chain, models, methods, execVarsButHeap>>

\* joinWith on the root of chain c
HeapJoinWith(c, model, q, jt) ==
    LET r == heapJoinWith(heap, heap.roots[c], model, q, jt) IN
    /\ heap' = r.heap
    /\ ormOp' = [op |-> "joinWith", c |-> c, err |-> r.err]
    /\ UNCHANGED <<refs, chain, models, methods, execVarsButHeap>>

\* joinWithField on the root of chain c with a field whose type names model
HeapJoinWithField(c, model, jt) ==
    LET r == heapJoinWithField(heap, heap.roots[c], model, jt) IN
    /\ heap.nodes[heap.roots[c]].model # NoModel
    /\ heap' = r.heap
    /\ ormOp' = [op |-> "joinWithField", c |-> c, err |-> r.err]
    /\ UNCHANGED <<refs, chain, models, methods, execVarsButHeap>>

\* the query of chain c is copied: its chain is cloned
HeapClone(c) ==
    LET cm == cloneModel(heap, heap.roots[c]) IN
    /\ Len(heap.roots) < MaxHeapChains
    /\ heap' = [cm.heap EXCEPT !.roots = Append(@, cm.addr)]
    /\ ormOp' = [op |-> "clone", c |-> c, err |-> "nil"]
    /\ UNCHANGED <<refs, chain, models, methods, execVarsButHeap>>

\* the caller takes the result of the call
HeapReturn ==
    /\ ormOp # NoOrmOp
    /\ ormOp' = NoOrmOp
    /\ UNCHANGED <<refs, chain, models, methods, execVars>>

\* the reference graph after initialization, no chain yet
HeapInit ==
    /\ heap = StoredHeap
    /\ refs = NoRefs
    /\ chain = <<>>
    /\ models = {}
    /\ methods = <<>>
    /\ ormOp = NoOrmOp
    /\ handles = <<>>
    /\ maps = <<>>
    /\ txs = <<>>
    /\ lastOp = NoOp
    /\ backend = "question"
    /\ query = <<>>
    /\ rpResult = NotCalled
    /\ GoUnused

HeapCall ==
    \/ HeapNew
    \/ \E c \in DOMAIN heap.roots, model \in HeapModels, q \in {NoQ, ExplicitQ} :
          HeapJoinWith(c, model, q, "LeftJoin") /\ HeapLen(heap', heap.roots[c]) <= MaxHeapLen
    \/ \E c \in DOMAIN heap.roots, model \in HeapModels :
          HeapJoinWithField(c, model, "LeftJoin") /\ HeapLen(heap', heap.roots[c]) <= MaxHeapLen
    \/ \E c \in DOMAIN heap.roots : HeapClone(c)

\* several chains on one reference graph: new chains, joins, clones
HeapNext ==
    \/ ormOp = NoOrmOp /\ HeapCall
    \/ HeapReturn

HeapSpec == HeapInit /\ [][HeapNext]_vars

\* the bytes of qualified names
NameAlphabet == {"A", "a", "B", "|", "x", "y"}

\* model.Map alone, on every model and every name of up to MaxQName bytes
ModelMapInit ==
    /\ refs = NoRefs
    /\ chain = <<>>
    /\ models = {}
    /\ methods = <<>>
    /\ ormOp = NoOrmOp
    /\ DbUnused

ModelMapNext ==
    /\ ormOp = NoOrmOp
    /\ \E m \in Models, qname \in SeqsUpTo(NameAlphabet, MaxQName) : MapOnModel(m, qname)

ModelMapSpec == ModelMapInit /\ [][ModelMapNext]_vars

\* a call of less on the models of graph g
Less(g, mi, mj) ==
    /\ \E r \in less(g, mi, mj, 1) :
          ormOp' = [op |-> "less", g |-> g, mi |-> mi, mj |-> mj, res |-> r]
    /\ UNCHANGED <<refs, chain, models, methods, execVars>>

\* less alone, on every pair of models of every graph
LessNext ==
    /\ ormOp = NoOrmOp
    /\ \E g \in ReferenceGraphs, mi, mj \in SortedModels : Less(g, mi, mj)

LessSpec == ModelMapInit /\ [][LessNext]_vars

-----------------------------------------------------------------------------
(* Claims about joinWith (JoinSpec, ImplicitSpec) *)

\* the step is a call of joinWith; ormOp' holds its arguments and results
JoinCalled == ormOp'.op = "joinWith"

\* the references to model held by the nodes of the chain ch, each as
\* <<position of the node, position in the node's list of references>>
ReferencesTo(ch, model) ==
    {<<i, k>> \in (DOMAIN ch) \X (1..MaxRefs) : k \in DOMAIN refs[ch[i].model][model]}

\* the join stored as reference p
Reference(ch, model, p) == refs[ch[p[1]].model][model][p[2]]

\* what joinWith makes of a chain without a root
C13_Step ==
    (JoinCalled /\ chain = <<>>) =>
        /\ chain' = <<[model |-> ormOp'.model, skip |-> FALSE, jtype |-> "none", q |-> NoQ]>>
        /\ ormOp'.ret = 1
        /\ ormOp'.err = "nil"

\* C13: joinWith on a chain without a root model makes the target model the
\* root, returns the root without an error and creates no join, whatever
\* condition and join type it is given.
C13_EmptyChainTakesRoot == [][C13_Step]_vars

\* the root was set by a call that passed a condition and a join type
C13_Witness ==
    /\ ormOp.op = "joinWith" /\ ormOp.q = ExplicitQ /\ ormOp.jt = "LeftJoin"
    /\ Len(chain) = 1 /\ ormOp.ret = 1

\* what joinWith makes of a condition on a chain with a root
C14_Step ==
    (JoinCalled /\ chain # <<>> /\ ormOp'.q # NoQ) =>
        /\ chain' = Append(chain, [model |-> ormOp'.model, skip |-> FALSE,
                                   jtype |-> ormOp'.jt, q |-> ormOp'.q])
        /\ ormOp'.ret = Len(chain')
        /\ ormOp'.err = "nil"

\* C14: joinWith with a condition on a chain that has a root always succeeds
\* and appends one node for the target at the tail, not skipped, with the
\* given join type and condition, whether or not the chain references the
\* target or already contains it.
C14_ExplicitJoinAppends == [][C14_Step]_vars

\* D, referenced by nobody in the chain, was joined explicitly twice
C14_Witness ==
    /\ ormOp.op = "joinWith" /\ ormOp.q = ExplicitQ /\ ormOp.err = "nil"
    /\ Len(chain) = 3 /\ ormOp.ret = 3
    /\ chain[1].model = "A" /\ chain[2].model = "D" /\ chain[3].model = "D"

\* what an implicit joinWith makes of a single reference
C15_Step ==
    (/\ JoinCalled /\ chain # <<>> /\ ormOp'.q = NoQ
     /\ Cardinality(ReferencesTo(chain, ormOp'.model)) = 1) =>
        LET p == CHOOSE p \in ReferencesTo(chain, ormOp'.model) : TRUE IN
        /\ chain' = Append(chain, [model |-> ormOp'.model, skip |-> FALSE,
                                   jtype |-> ormOp'.jt,
                                   q |-> Reference(chain, ormOp'.model, p).q])
        /\ ormOp'.ret = Len(chain')
        /\ ormOp'.err = "nil"

\* C15: when the nodes of the chain hold exactly one reference to B,
\* joinWith(B, nil, jt) succeeds and appends one node for B at the tail, with
\* the condition of the reference and the join type jt instead of the one
\* stored in the reference, and returns that node.
C15_SingleReferenceJoins == [][C15_Step]_vars

\* the chain A became A -> B with the requested type, not the stored one
C15_Witness ==
    /\ ormOp.op = "joinWith" /\ ormOp.q = NoQ /\ ormOp.err = "nil"
    /\ ormOp.jt = "LeftJoin" /\ ormOp.jt # StoredJoinType
    /\ Len(chain) = 2 /\ ormOp.ret = 2
    /\ chain[1].model = "A" /\ chain[2].model = "B"
    /\ chain[2].jtype = "LeftJoin" /\ chain[2].q = refs["A"]["B"][1].q

\* what an implicit joinWith makes of a target nobody references
C16_Step ==
    (/\ JoinCalled /\ chain # <<>> /\ ormOp'.q = NoQ
     /\ ReferencesTo(chain, ormOp'.model) = {}) =>
        /\ ormOp'.err = "cantJoin"
        /\ ormOp'.ret = 0
        /\ chain' = chain

\* C16: joinWith without a condition to a model that no node of the chain
\* references returns the "can't join" error and leaves the chain as it was.
C16_NoReferenceFails == [][C16_Step]_vars

\* a chain of two nodes refused an implicit join
C16_Witness ==
    /\ ormOp.op = "joinWith" /\ ormOp.q = NoQ /\ ormOp.err = "cantJoin"
    /\ Len(chain) = 2

\* whether a precedes b in the order of the walk over the chain
Precedes(a, b) == a[1] < b[1] \/ (a[1] = b[1] /\ a[2] <= b[2])

\* the first reference of the non-empty set R in the order of the walk
FirstReference(R) == CHOOSE a \in R : \A b \in R : Precedes(a, b)

\* whether the joins a and b are equalities on the same model with the same
\* comparison value
Redundant(a, b) ==
    /\ a.q.kind = "Eq" /\ b.q.kind = "Eq"
    /\ a.model = b.model
    /\ a.q.value = b.q.value

\* nodes i and j of the chain are different models that hold one reference to
\* model each, with different conditions
HoldOwnConditions(ch, i, j, model) ==
    /\ ch[i].model # ch[j].model
    /\ Len(refs[ch[i].model][model]) = 1
    /\ Len(refs[ch[j].model][model]) = 1
    /\ refs[ch[i].model][model][1].q # refs[ch[j].model][model][1].q

\* C17 (as claimed): in a chain rooted at A in which B and C each hold their
\* own, different condition on D, joinWith(D, nil, jt) returns the ambiguity
\* error and leaves the chain as it was.
C17_Original ==
    [][(/\ JoinCalled /\ chain # <<>> /\ ormOp'.q = NoQ
        /\ \E i, j \in DOMAIN chain : HoldOwnConditions(chain, i, j, ormOp'.model))
          => (ormOp'.err = "ambiguous" /\ chain' = chain)]_vars

\* the two conditions are not redundant: the join is refused
C17_Step ==
    (/\ JoinCalled /\ chain # <<>> /\ ormOp'.q = NoQ
     /\ \E i, j \in DOMAIN chain :
           /\ HoldOwnConditions(chain, i, j, ormOp'.model)
           /\ ~Redundant(refs[chain[i].model][ormOp'.model][1],
                         refs[chain[j].model][ormOp'.model][1]))
       => (ormOp'.err = "ambiguous" /\ ormOp'.ret = 0 /\ chain' = chain)

\* C17 (amended): in a chain in which B and C each hold their own condition
\* on D, joinWith(D, nil, jt) returns the ambiguity error and leaves the
\* chain as it was unless the two conditions are equalities with the same
\* comparison value.
C17_AmbiguousUnlessRedundant == [][C17_Step]_vars

\* the chain A -> B -> C refused D, which B and C compare with different
\* columns
C17_Witness ==
    /\ ormOp.op = "joinWith" /\ ormOp.q = NoQ /\ ormOp.model = "D"
    /\ ormOp.err = "ambiguous"
    /\ Len(chain) = 3
    /\ chain[1].model = "A" /\ chain[2].model = "B" /\ chain[3].model = "C"
    /\ HoldOwnConditions(chain, 2, 3, "D")
    /\ refs["B"]["D"][1].q.kind = "Eq" /\ refs["C"]["D"][1].q.kind = "Eq"

\* what an implicit joinWith makes of several references
C18_Step ==
    (/\ JoinCalled /\ chain # <<>> /\ ormOp'.q = NoQ
     /\ Cardinality(ReferencesTo(chain, ormOp'.model)) > 1) =>
        LET R == ReferencesTo(chain, ormOp'.model)
            first == Reference(chain, ormOp'.model, FirstReference(R))
        IN  IF \A p \in R : Redundant(first, Reference(chain, ormOp'.model, p))
            THEN /\ ormOp'.err = "nil"
                 /\ ormOp'.ret = Len(chain')
                 /\ chain' = Append(chain, [model |-> first.model, skip |-> first.skip,
                                            jtype |-> ormOp'.jt, q |-> first.q])
            ELSE /\ ormOp'.err = "ambiguous"
                 /\ chain' = chain

\* C18: when the chain holds several references to the target and all of them
\* are equalities on the same model with the same comparison value, the
\* implicit join succeeds with the first of them in the order of the walk;
\* when one of them is not an equality, is on another model or compares with
\* another value, the ambiguity error is returned.
C18_RedundancyCollapse == [][C18_Step]_vars

\* B and C both compare with the same column of D, and D was joined with B's
\* condition
C18_Witness ==
    /\ ormOp.op = "joinWith" /\ ormOp.q = NoQ /\ ormOp.model = "D" /\ ormOp.err = "nil"
    /\ Len(chain) = 4
    /\ chain[2].model = "B" /\ chain[3].model = "C" /\ chain[4].model = "D"
    /\ Len(refs["B"]["D"]) = 1 /\ Len(refs["C"]["D"]) = 1
    /\ chain[4].q = refs["B"]["D"][1].q
    /\ chain[4].q # refs["C"]["D"][1].q

-----------------------------------------------------------------------------
(* Claims about Map (ChainMapSpec, ModelMapSpec) *)

\* the nodes of the chain whose model resolves qname
Resolvers(qname) == {i \in DOMAIN chain : ModelMap(chain[i].model, qname).err = "nil"}

Separators(qname) == {i \in DOMAIN qname : qname[i] = "|"}

\* C20: Map("Type|Field") on a model returns an error whenever Type is
\* neither the model's name nor its short name, whether or not the model has
\* the field; when Type is one of them, the result is that of Map("Field").
C20_TypeMustMatch ==
    (ormOp.op = "model.Map" /\ Separators(ormOp.qname) # {}) =>
        LET sep == CHOOSE i \in Separators(ormOp.qname) :
                      \A j \in Separators(ormOp.qname) : i <= j
            typ == SubSeq(ormOp.qname, 1, sep - 1)
            field == SubSeq(ormOp.qname, sep + 1, Len(ormOp.qname))
        IN  /\ typ \notin {ModelName[ormOp.model], ShortName[ormOp.model]} =>
                  ormOp.res = [err |-> "errNotThisModel", arg |-> typ]
            /\ (typ \in {ModelName[ormOp.model], ShortName[ormOp.model]}
                  /\ Separators(field) = {}) =>
                  ormOp.res = ModelMap(ormOp.model, field)

\* a field of A was asked of A under the name of B
C20_Witness ==
    /\ ormOp.op = "model.Map" /\ ormOp.model = "A"
    /\ ormOp.qname = <<"B", "|", "x">>
    /\ <<"x">> \in DOMAIN ModelFields["A"]
    /\ ormOp.res.err = "errNotThisModel"

\* the part of qname before its first separator, and the part after it
TypeOf(qname) ==
    SubSeq(qname, 1, (CHOOSE i \in Separators(qname) : \A j \in Separators(qname) : i <= j) - 1)
FieldOf(qname) ==
    SubSeq(qname, (CHOOSE i \in Separators(qname) : \A j \in Separators(qname) : i <= j) + 1,
           Len(qname))

\* the nodes of the chain whose model goes by the name typ and has the field
Holders(typ, field) ==
    {i \in DOMAIN chain : /\ typ \in {ModelName[chain[i].model], ShortName[chain[i].model]}
                          /\ field \in DOMAIN ModelFields[chain[i].model]}

\* C21 (as claimed): a name with a Type| prefix resolves to one column
\* whenever the chain contains a model named Type that has the field.
C21_Original ==
    (/\ ormOp.op = "Map" /\ chain # <<>> /\ Separators(ormOp.qname) # {}
     /\ \E i \in Holders(TypeOf(ormOp.qname), FieldOf(ormOp.qname)) :
           TypeOf(ormOp.qname) = ModelName[chain[i].model])
       => ormOp.res.err = "nil"

\* C21 (amended): Map of Type|Field on a chain returns a column only of a
\* node whose model goes by the name Type, returns an error when no such node
\* has the field, even if other models of the chain have it, resolves to the
\* column when exactly one such node has the field, and returns the
\* ambiguity error when several nodes do.
C21_PrefixRestricts ==
    (ormOp.op = "Map" /\ chain # <<>> /\ Separators(ormOp.qname) # {}) =>
        LET H == Holders(TypeOf(ormOp.qname), FieldOf(ormOp.qname)) IN
        /\ H = {} => ormOp.res.err = "errCantMap"
        /\ Cardinality(H) = 1 =>
              LET f == ModelFields[chain[CHOOSE i \in H : TRUE].model][FieldOf(ormOp.qname)]
              IN  ormOp.res = [err |-> "nil", name |-> f.name, typ |-> f.typ]
        /\ Cardinality(H) > 1 => ormOp.res.err = "errAmbiguous"

\* B|x resolved to the column of B on a chain whose root A has a field x too
C21_Witness ==
    /\ ormOp.op = "Map" /\ ormOp.qname = <<"B", "|", "x">>
    /\ chain # <<>> /\ chain[1].model = "A"
    /\ ormOp.res = [err |-> "nil", name |-> <<"B", "x">>, typ |-> "string"]

-----------------------------------------------------------------------------
(* Claims about sortModels.less (LessSpec) *)

\* the models reached from a on graph g by n or fewer references, n >= 1
RECURSIVE ReachedWithin(_, _, _)
ReachedWithin(g, a, n) ==
    IF n = 1 THEN g[a]
    ELSE LET R == ReachedWithin(g, a, n - 1) IN R \cup UNION {g[m] : m \in R}

\* whether b is reached from a by one or more references
Reachable(g, a, b) == b \in ReachedWithin(g, a, Cardinality(SortedModels))

\* C22 (as claimed): less(a, b) is false if a references b directly or
\* through other models, and true otherwise.
C22_ExactlyUnreachable ==
    ormOp.op = "less" =>
        ormOp.res = IF Reachable(ormOp.g, ormOp.mi, ormOp.mj) THEN "false" ELSE "true"

\* C32: less is a strict ordering: less(a, a) is never true, and less(a, b)
\* and less(b, a) are never both true
C32_StrictOrder ==
    (ormOp.op = "less" /\ ormOp.res = "true") =>
        /\ ormOp.mi # ormOp.mj
        /\ "true" \notin less(ormOp.g, ormOp.mj, ormOp.mi, 1)

\* C39 (as claimed): less(a, b) returns on every reference graph, graphs with
\* self-references and with reference cycles included: the recursion never
\* exhausts the stack.
C39_Terminates == ormOp.op = "less" => ormOp.res \in {"true", "false"}

-----------------------------------------------------------------------------
(* Claims about QuoteString and QuoteIdentifier (QuoteSpec) *)

\* s with every q doubled, and s with a backslash before every q
RECURSIVE Doubled(_, _)
Doubled(s, q) ==
    IF s = <<>> THEN <<>>
    ELSE (IF Head(s) = q THEN <<q, q>> ELSE <<Head(s)>>) \o Doubled(Tail(s), q)

RECURSIVE Backslashed(_, _)
Backslashed(s, q) ==
    IF s = <<>> THEN <<>>
    ELSE (IF Head(s) = q THEN <<"\\", q>> ELSE <<Head(s)>>) \o Backslashed(Tail(s), q)

\* C23 (as claimed): QuoteString encloses the text in the backend's string
\* quote and doubles every such quote inside, QuoteIdentifier encloses it in
\* the identifier quote and puts a backslash before every such quote inside,
\* whatever the quote character is.
C23_StyleByFunction ==
    /\ lastOp.op = "QuoteString" =>
          lastOp.res = <<lastOp.q>> \o Doubled(lastOp.s, lastOp.q) \o <<lastOp.q>>
    /\ lastOp.op = "QuoteIdentifier" =>
          lastOp.res = <<lastOp.q>> \o Backslashed(lastOp.s, lastOp.q) \o <<lastOp.q>>

-----------------------------------------------------------------------------
(* Claims about panics (ChainMapSpec) *)

\* C24 (as claimed): joinWith, joinWithField and Map report every failure as
\* an error value and never panic, on every chain, also one without a root.
C24_NeverPanics ==
    /\ ormOp.op = "Map" => ormOp.res.err # "panic"
    /\ ormOp.op \in {"joinWith", "joinWithField"} => ormOp.err # "panic"

-----------------------------------------------------------------------------
(* Claims about the cache lock, under GoSpec *)

\* the goroutine is at the statement that reads the map (line 187)
AtLookup(g) == gs[g].pc = "read"

\* the goroutine is at the statements that write the map (lines 201-204)
AtInsert(g) == gs[g].pc = "store"

\* the two goroutines work on one map: through one handle, or through two
\* handles whose cache fields hold the same map
SameMap(g1, g2) ==
    \/ gs[g1].h = gs[g2].h
    \/ /\ handles[gs[g1].h].cache # 0
       /\ handles[gs[g1].h].cache = handles[gs[g2].h].cache

\* C25: no insertion into a cache map runs concurrently with another
\* insertion or with a lookup on the same map, across a handle and the
\* transactional handles begun from it
C25_MapAccessExcluded ==
    \A g1, g2 \in Goroutines :
        (g1 # g2 /\ AtInsert(g1) /\ (AtInsert(g2) \/ AtLookup(g2))) => ~SameMap(g1, g2)

\* the goroutine holds the mutex of some handle, for reading or for writing
HoldsLock(g) == \E h \in DOMAIN mus : g \in mus[h].readers \/ mus[h].writer = g

\* the statements between RLock and RUnlock and between Lock and Unlock
LockedStatements == {"read", "RUnlock", "store", "Unlock"}

\* C26: a goroutine holds the cache lock only around the map lookup and the
\* map insertion: it holds none while it calls the backend (Prepare, tx.Stmt,
\* the execution request), none while it waits for a lock, and none once
\* preparedStmt has returned
C26_LockOnlyAroundMap ==
    \A g \in Goroutines : HoldsLock(g) => gs[g].pc \in LockedStatements

\* one goroutine is inside Prepare for one text while another, on the same
\* handle, reads the map for another text, after a statement has been cached
C26_Witness ==
    \E g1, g2 \in Goroutines :
        /\ gs[g1].pc = "Prepare" /\ gs[g2].pc = "RUnlock"
        /\ gs[g1].h = gs[g2].h /\ gs[g1].s # gs[g2].s
        /\ g2 \in mus[gs[g2].h].readers
        /\ gs[g2].look.ok

-----------------------------------------------------------------------------
(* Claims about the shape and the order of the chain *)

\* a call has been made in this step
OrmCalled == ormOp' # NoOrmOp

\* the nodes the chain had are the first nodes of the chain after the step
KeepsNodes == Len(chain') >= Len(chain) /\ SubSeq(chain', 1, Len(chain)) = chain

\* the number of nodes the step has added
Added == Len(chain') - Len(chain)

\* C27: every call of joinWith, joinWithField, joinWithSort or joinWithQuery
\* leaves the nodes of the chain as they were, in their order, and puts what
\* it joins behind them: one node for a successful joinWith, none for a failed
\* one, at most one for joinWithField, and for every call one node for each
\* model it adds to the set of joined models
C27_Step ==
    OrmCalled =>
        /\ KeepsNodes
        /\ ormOp'.op = "joinWith" => Added = (IF ormOp'.err = "nil" THEN 1 ELSE 0)
        /\ ormOp'.op = "joinWithField" => Added <= 1
        /\ ormOp'.op # "joinWith" =>
              /\ models \subseteq models'
              /\ Added = Cardinality(models' \ models)
              /\ Added = Len(methods') - Len(methods)

C27_AppendsAtTail == [][C27_Step]_vars

\* one joinWithQuery call has put two nodes behind the root
C27_Witness ==
    /\ ormOp.op = "joinWithQuery"
    /\ ormOp.err = "nil"
    /\ ormOp.joined = 2
    /\ Len(chain) = 3

\* node i of chain ch was joined through a reference: it carries the
\* condition of a reference to its model held by the model of an earlier node
JoinedByReference(ch, i) ==
    \E k \in 1..(i - 1) : \E r \in DOMAIN refs[ch[k].model][ch[i].model] :
        refs[ch[k].model][ch[i].model][r].q = ch[i].q

\* what a call of joinWith makes of the order of the chain
C28_Step ==
    JoinCalled =>
        /\ ormOp'.err = "nil" =>
              /\ chain' = Append(chain, chain'[Len(chain')])
              /\ chain'[Len(chain')].model = ormOp'.model
              /\ (chain # <<>> /\ ormOp'.q = NoQ) => JoinedByReference(chain', Len(chain'))
        /\ ormOp'.err # "nil" => chain' = chain
        /\ \A i \in 2..Len(chain') : chain'[i].q # ExplicitQ => JoinedByReference(chain', i)

\* C28: the models of a chain built by joinWith calls stand in the order of
\* the successful calls, each call putting its model last, and every model
\* joined without a condition is the target of a reference held by the model
\* of an earlier node of the chain
C28_OrderIsAppendOrder == [][C28_Step]_vars

\* D was joined implicitly behind A and B, through the reference B holds
C28_Witness ==
    /\ ormOp.op = "joinWith" /\ ormOp.q = NoQ /\ ormOp.err = "nil" /\ ormOp.model = "D"
    /\ Len(chain) = 3
    /\ chain[1].model = "A" /\ chain[2].model = "B" /\ chain[3].model = "D"
    /\ refs["A"]["D"] = <<>>

-----------------------------------------------------------------------------
(* Claims about joinWithField, joinWithSort and joinWithQuery *)

\* the type name of a qualified field, and <<>> for a field without one
TypeName(field) ==
    IF IndexByte(field, "|") < 0 THEN <<>> ELSE SubSeq(field, 1, IndexByte(field, "|"))

\* the models that models of chain ch reference under the name typ
NamedBy(ch, typ) ==
    {e[2] : e \in {e \in UNION {NamedReferences(refs, ch[i].model) : i \in DOMAIN ch} :
                       e[1] = typ}}

\* what the call of joinWithField in this step has to do for field
C29_Step ==
    ormOp'.op = "joinWithField" =>
        LET field == ormOp'.field
            named == IF IndexByte(field, "|") < 0 THEN {}
                     ELSE NamedBy(chain, TypeName(field)) \ models
        IN  IF named # {}
            THEN \E M \in named :
                    /\ Len(chain') = Len(chain) + 1
                    /\ SubSeq(chain', 1, Len(chain)) = chain
                    /\ chain'[Len(chain')].model = M
                    /\ chain'[Len(chain')].skip
                    /\ \E k \in DOMAIN chain : \E r \in DOMAIN refs[chain[k].model][M] :
                          chain'[Len(chain')].q = refs[chain[k].model][M][r].q
                    /\ models' = models \cup {M}
                    /\ methods' = Append(methods, M)
                    /\ ormOp'.err = "nil"
            ELSE /\ chain' = chain
                 /\ models' = models
                 /\ methods' = methods
                 /\ ormOp'.err = "nil"

\* C29: joinWithField with a field Type|Field, where a model of the chain has
\* a reference named Type to a model M that is not in the set of joined
\* models, appends one implicit, skipped join to M, adds M to the set and M's
\* methods to the accumulator; in every other case it changes nothing and
\* returns no error
C29_FieldJoinsOnce == [][C29_Step]_vars

\* the name behind the separator of a qualified field
NameBehind(field) == SubSeq(field, IndexByte(field, "|") + 2, Len(field))

\* what Map makes of the field after the call of joinWithField in this step
C40_Step ==
    (ormOp'.op = "joinWithField" /\ ormOp'.err = "nil") =>
        \A M \in NamedBy(chain, TypeName(ormOp'.field)) :
            NameBehind(ormOp'.field) \in DOMAIN ModelFields[M] =>
                ChainMap(chain', ormOp'.field) =
                    [err |-> "nil",
                     name |-> ModelFields[M][NameBehind(ormOp'.field)].name,
                     typ |-> ModelFields[M][NameBehind(ormOp'.field)].typ]

\* C40 (as claimed): whatever the chain and the set of joined models, after
\* joinWithField has returned no error for Type|Field, where a model of the
\* chain has a reference named Type to a model M with a field Field, Map of
\* Type|Field on the chain returns M's column of that field.
C40_FieldReachable == [][C40_Step]_vars

\* the fields of condition q and of its sub-conditions, each condition
\* before its sub-conditions and these from the first to the last
RECURSIVE FieldsOf(_)
RECURSIVE FieldsOfAll(_, _)
FieldsOf(q) == <<q.field>> \o FieldsOfAll(q.subq, 1)
FieldsOfAll(qs, i) == IF i > Len(qs) THEN <<>> ELSE FieldsOf(qs[i]) \o FieldsOfAll(qs, i + 1)

\* the fields the call of this step had to visit
FieldsGiven == IF ormOp'.op = "joinWithSort" THEN ormOp'.sort ELSE FieldsOf(ormOp'.q)

\* the errors of a join
JoinErrors == {"cantJoin", "ambiguous"}

\* what the claim asks of a call of joinWithSort or joinWithQuery
C30_OriginalStep ==
    ormOp'.op \in {"joinWithSort", "joinWithQuery"} =>
        /\ Len(ormOp'.fields) <= Len(FieldsGiven)
        /\ ormOp'.fields = SubSeq(FieldsGiven, 1, Len(ormOp'.fields))
        /\ ormOp'.err = "nil" =>
              /\ ormOp'.fields = FieldsGiven
              /\ \A i \in DOMAIN FieldsGiven :
                    NamedBy(chain', TypeName(FieldsGiven[i])) \subseteq models'
        /\ ormOp'.err \in JoinErrors =>
              /\ ormOp'.fields # <<>>
              /\ NamedBy(chain', TypeName(ormOp'.fields[Len(ormOp'.fields)])) \ models' # {}

\* C30 (as claimed): joinWithQuery visits the field of the condition and of
\* every sub-condition and joinWithSort every sort key, in order; after a
\* call without error every model that a model of the chain references under
\* the type name of one of the fields is in the set of joined models; the
\* call stops at the first join error.
C30_Original == [][C30_OriginalStep]_vars

\* the nodes new were joined for the fields i to last of seen, in order: each
\* field whose type names a model that a model of the chain references, and
\* that is not in the set of joined models, takes the next node, which is
\* skipped and has that model; every other field takes none
RECURSIVE JoinedInOrder(_, _, _, _, _, _)
JoinedInOrder(seen, ch, new, mset, i, last) ==
    IF i > last THEN new = <<>>
    ELSE LET named == NamedBy(ch, TypeName(seen[i])) \ mset
         IN  IF named # {}
             THEN /\ new # <<>>
                  /\ new[1].model \in named
                  /\ new[1].skip
                  /\ JoinedInOrder(seen, Append(ch, new[1]), Tail(new),
                                   mset \cup {new[1].model}, i + 1, last)
             ELSE JoinedInOrder(seen, ch, new, mset, i + 1, last)

\* what a call of joinWithSort or joinWithQuery does with the fields given
C30_Step ==
    ormOp'.op \in {"joinWithSort", "joinWithQuery"} =>
        LET given == FieldsGiven
            seen == ormOp'.fields
            new == SubSeq(chain', Len(chain) + 1, Len(chain'))
        IN  /\ Len(seen) <= Len(given) /\ seen = SubSeq(given, 1, Len(seen))
            /\ KeepsNodes
            /\ models' = models \cup {new[i].model : i \in DOMAIN new}
            /\ ormOp'.err = "nil" =>
                  /\ seen = given
                  /\ JoinedInOrder(seen, chain, new, models, 1, Len(seen))
                  /\ \A i \in DOMAIN given : NamedBy(chain, TypeName(given[i])) \subseteq models'
            /\ ormOp'.err \in JoinErrors =>
                  /\ seen # <<>>
                  /\ JoinedInOrder(seen, chain, new, models, 1, Len(seen) - 1)
                  /\ NamedBy(chain', TypeName(seen[Len(seen)])) \ models' # {}

\* C30 (amended): joinWithQuery hands the field of the condition and of
\* every sub-condition, at every depth, to joinWithField, and joinWithSort
\* every sort key, in order. Each field whose type names a model that a model
\* of the chain, as it is when the field is visited, references, and that is
\* not yet in the set of joined models, gets one skipped node with that model
\* at the tail and the model in the set; every other field changes nothing.
\* After a call without error all fields were visited; a call that returns a
\* join error has visited the fields up to the one whose join failed, and
\* none after it.
C30_VisitsEveryField == [][C30_Step]_vars

\* a joinWithQuery call on a nested condition joined one model for the first
\* sub-condition and stopped at the ambiguous join of the second, before the
\* last field
C30_Witness ==
    /\ ormOp.op = "joinWithQuery"
    /\ ormOp.err = "ambiguous"
    /\ ormOp.joined = 1
    /\ Len(ormOp.q.subq) = 2 /\ Len(ormOp.q.subq[2].subq) = 2
    /\ Len(ormOp.fields) = 4
    /\ Len(FieldsOf(ormOp.q)) = 5

-----------------------------------------------------------------------------
(* Claims about skipped nodes *)

\* what a call does to the skip marks of the chain
C31_Step ==
    OrmCalled =>
        /\ KeepsNodes
        /\ \A i \in (Len(chain) + 1)..Len(chain') :
              Skip(chain'[i]) => ormOp'.op \in {"joinWithField", "joinWithSort", "joinWithQuery"}
        /\ ormOp'.op = "joinWith" => \A i \in (Len(chain) + 1)..Len(chain') : ~Skip(chain'[i])
        /\ chain' # <<>> => ~Skip(chain'[1])
        /\ \A i \in DOMAIN chain' :
              Fields(chain'[i]) = IF chain'[i].skip THEN "nil" ELSE ModelFields[chain'[i].model]

\* C31: a node is skipped only if joinWithField appended it, directly or
\* through joinWithSort or joinWithQuery; the root and the nodes joinWith
\* appends, with or without a condition, are not skipped, and no call changes
\* the mark of a node the chain already had; Fields() of a skipped node is
\* nil and Fields() of every other node is its model's fields
C31_SkipOnlyFromFields == [][C31_Step]_vars

\* a chain with a node joined by joinWith and, behind it, a skipped node that
\* joinWithField has just appended
C31_Witness ==
    /\ ormOp.op = "joinWithField" /\ ormOp.err = "nil"
    /\ Len(chain) = 3
    /\ ~Skip(chain[2]) /\ Fields(chain[2]) = ModelFields[chain[2].model]
    /\ Skip(chain[3]) /\ Fields(chain[3]) = "nil"

-----------------------------------------------------------------------------
(* Claims about clones and about the stored references (HeapSpec) *)

\* the chain that starts at address a, read node by node: each node with the
\* type and the condition of the join that leads to it
RECURSIVE WalkFrom(_, _, _, _)
WalkFrom(h, a, jt, q) ==
    <<[model |-> h.nodes[a].model, skip |-> h.nodes[a].skip, jtype |-> jt, q |-> q]>>
        \o (IF h.nodes[a].join = NoJoin THEN <<>>
            ELSE WalkFrom(h, h.joins[h.nodes[a].join].model,
                          h.joins[h.nodes[a].join].jtype, h.joins[h.nodes[a].join].q))

Walk(h, a) == WalkFrom(h, a, "none", NoQ)

\* the addresses of the joinModels, and of the joins, of the chain from a on
RECURSIVE NodesOf(_, _)
NodesOf(h, a) ==
    {a} \cup (IF h.nodes[a].join = NoJoin THEN {} ELSE NodesOf(h, h.joins[h.nodes[a].join].model))

RECURSIVE JoinsOf(_, _)
JoinsOf(h, a) ==
    IF h.nodes[a].join = NoJoin THEN {}
    ELSE {h.nodes[a].join} \cup JoinsOf(h, h.joins[h.nodes[a].join].model)

\* what clone makes, and what calls on one chain leave alone
C33_Step ==
    /\ ormOp'.op = "clone" =>
          LET from == heap.roots[ormOp'.c]
              to == heap'.roots[Len(heap'.roots)]
          IN  /\ Walk(heap', to) = Walk(heap, from)
              /\ NodesOf(heap', to) \cap DOMAIN heap.nodes = {}
              /\ JoinsOf(heap', to) \cap DOMAIN heap.joins = {}
    /\ ormOp'.op \in {"clone", "joinWith", "joinWithField"} =>
          \A d \in DOMAIN heap.roots :
              (ormOp'.op = "clone" \/ d # ormOp'.c) =>
                  Walk(heap', heap'.roots[d]) = Walk(heap, heap.roots[d])

\* C33: the clone of a chain has the models, skip marks, join types and
\* conditions of the original, in the same order, in joinModel and join
\* values of its own; joinWith and joinWithField on one chain, clone or
\* original, leave every other chain as it was
C33_CloneIsDeep == [][C33_Step]_vars

\* a chain of three nodes, one of them skipped, has just been cloned
C33_Witness ==
    /\ ormOp.op = "clone"
    /\ Len(heap.roots) = 2
    /\ Len(Walk(heap, heap.roots[1])) = 3
    /\ \E i \in 1..3 : Walk(heap, heap.roots[1])[i].skip
    /\ Walk(heap, heap.roots[2]) = Walk(heap, heap.roots[1])

\* C34: the joins stored in the reference graph, and their joinModels, stay
\* as they were after initialization, whatever is joined on whatever chain:
\* no chain holds a stored join or its joinModel, and no two chains hold the
\* same joinModel or the same join
C34_ReferencesImmutable ==
    /\ \A a \in DOMAIN StoredHeap.joins : heap.joins[a] = StoredHeap.joins[a]
    /\ \A a \in DOMAIN StoredHeap.nodes : heap.nodes[a] = StoredHeap.nodes[a]
    /\ \A c \in DOMAIN heap.roots :
          /\ NodesOf(heap, heap.roots[c]) \cap DOMAIN StoredHeap.nodes = {}
          /\ JoinsOf(heap, heap.roots[c]) \cap DOMAIN StoredHeap.joins = {}
    /\ \A c, d \in DOMAIN heap.roots :
          c # d => /\ NodesOf(heap, heap.roots[c]) \cap NodesOf(heap, heap.roots[d]) = {}
                   /\ JoinsOf(heap, heap.roots[c]) \cap JoinsOf(heap, heap.roots[d]) = {}

\* two chains have joined B through the reference A holds, one by joinWith
\* and one, skipped, by joinWithField, both with another join type than the
\* stored one
C34_Witness ==
    /\ Len(heap.roots) = 2
    /\ \E s1, s2 \in BOOLEAN :
          /\ s1 # s2
          /\ Walk(heap, heap.roots[1]) =
                <<[model |-> "A", skip |-> FALSE, jtype |-> "none", q |-> NoQ],
                  [model |-> "B", skip |-> s1, jtype |-> "LeftJoin", q |-> StoredHeap.joins[1].q]>>
          /\ Walk(heap, heap.roots[2]) =
                <<[model |-> "A", skip |-> FALSE, jtype |-> "none", q |-> NoQ],
                  [model |-> "B", skip |-> s2, jtype |-> "LeftJoin", q |-> StoredHeap.joins[1].q]>>
    /\ StoredJoinType # "LeftJoin"

-----------------------------------------------------------------------------
(* Claims about the text sent and about calls without arguments (CacheSpec) *)

\* the call is an execution request through Exec, Query or QueryRow
IsExecOp == lastOp.op \in ExecOps

\* C35: Exec, Query and QueryRow send the same text for the same input on the
\* same handle: the text rewritten once by replacePlaceholders when the
\* handle replaces placeholders, and the text as given when it does not
C35_SameTextSent ==
    IsExecOp =>
        lastOp.sent = IF handles[lastOp.h].replacesPlaceholders
                      THEN replacePlaceholders(backend, lastOp.q)
                      ELSE lastOp.q

\* what a call without arguments does
C36_Step ==
    (lastOp = NoOp /\ lastOp'.op \in ExecOps /\ ~lastOp'.args) =>
        /\ maps' = maps
        /\ handles' = handles
        /\ Len(lastOp'.calls) = 1
        /\ lastOp'.calls[1].fn = "conn." \o lastOp'.op
        /\ lastOp'.calls[1].conn = handles[lastOp'.h].conn
        /\ lastOp'.calls[1].sql = lastOp'.sent
        /\ lastOp'.stmt = NoStmt

\* C36: Exec, Query and QueryRow without arguments make one backend call,
\* the method of the same name on the handle's connection with the text
\* sent; they prepare nothing and leave the cache maps and the handles' cache
\* fields as they were
C36_NoArgsNoCache == [][C36_Step]_vars

\* a query without arguments ran on the connection of a transaction while a
\* statement was cached
C36_Witness ==
    /\ lastOp.op = "Query" /\ ~lastOp.args
    /\ handles[lastOp.h].conn # 0
    /\ maps # <<>>
    /\ lastOp.calls[1].conn = handles[lastOp.h].conn

-----------------------------------------------------------------------------
(* Claims about concurrent calls of one text (SameTextSpec) *)

\* the goroutines that have made the call, and those that have its statement
Callers == {g \in Goroutines : gs[g].pc # "idle"}
HasResult(g) == gs[g].pc \in {"exec", "done"}

\* the sqlDb.Prepare calls the goroutines of G have made
RECURSIVE PrepareCalls(_)
PrepareCalls(G) ==
    IF G = {} THEN 0
    ELSE LET g == CHOOSE x \in G : TRUE IN Len(gs[g].prep) + PrepareCalls(G \ {g})

\* the statement preparedStmt returned to g was prepared from g's text and is
\* bound to the transaction of g's handle
GotStatement(g) ==
    gs[g].stmt = [text |-> gs[g].s, tx |-> handles[gs[g].h].tx, prepared |-> TRUE]

\* the keys under which the cache of handle h holds text s
KeysOf(h, s) ==
    IF handles[h].cache = 0 THEN {}
    ELSE {k \in DOMAIN maps[handles[h].cache] : maps[handles[h].cache][k].sql = s}

\* the cache of the callers' handle holds their text once, under its
\* checksum, with a statement prepared from it
CachedOnce ==
    /\ KeysOf(gs[1].h, gs[1].s) = {CrcTable[gs[1].s]}
    /\ maps[handles[gs[1].h].cache][CrcTable[gs[1].s]].stmt =
          [text |-> gs[1].s, tx |-> 0, prepared |-> TRUE]

\* C37 (as claimed): when several goroutines concurrently execute one text
\* that is not cached through one handle, every caller gets a statement
\* prepared from the text, there are at most as many Prepare calls as
\* callers, afterwards the cache holds the text once, under its checksum,
\* and every later sequential execution of the text hits the cache.
C37_Original ==
    /\ \A g \in Goroutines : HasResult(g) => GotStatement(g)
    /\ PrepareCalls(Goroutines) <= Cardinality(Callers)
    /\ AllDone => CachedOnce
    /\ lastOp.op \in ExecOps => lastOp.hit /\ Prepares(lastOp.calls) = 0

\* C37: a caller gets a statement prepared from the text unless the Prepare
\* call it made failed, and then it gets nil; there are at most as many
\* Prepare calls as callers; once all callers have returned and one of them
\* got a statement, the cache holds the text once, under its checksum, and
\* every later sequential execution of the text hits the cache and prepares
\* nothing.
C37_PreparedByEachCaller ==
    /\ \A g \in Goroutines :
          HasResult(g) =>
              IF gs[g].prep = <<FALSE>> THEN gs[g].stmt = NoStmt ELSE GotStatement(g)
    /\ PrepareCalls(Goroutines) <= Cardinality(Callers)
    /\ (AllDone /\ \E g \in Goroutines : gs[g].stmt # NoStmt) =>
          /\ CachedOnce
          /\ lastOp.op \in ExecOps => lastOp.hit /\ Prepares(lastOp.calls) = 0

\* both goroutines missed the cache and prepared the text on the handle of
\* the transaction, one entry is cached, and a later call has hit it
C37_Witness ==
    /\ AllDone
    /\ \A g \in Goroutines : gs[g].prep = <<TRUE>> /\ gs[g].h = 2
    /\ CachedOnce
    /\ lastOp.op = "Exec" /\ lastOp.hit

-----------------------------------------------------------------------------
(* Claims about replacePlaceholders (RewriteSpec) *)

\* The rewriting a SQL lexer gives: a literal opens at a quote met outside
\* any literal and closes at the next quote of the same kind, except that two
\* single quotes in a row inside a single-quoted literal stand for one quote
\* character; st is "out", "single" or "double", k the next parameter index.
RECURSIVE RefRewrite(_, _, _, _, _)
RefRewrite(b, q, i, st, k) ==
    IF i > Len(q) THEN <<>>
    ELSE LET ch == q[i] IN
         CASE st = "out" /\ ch = "?" -> Placeholder(b, k) \o RefRewrite(b, q, i + 1, st, k + 1)
           [] st = "out" /\ ch = "'" -> <<ch>> \o RefRewrite(b, q, i + 1, "single", k)
           [] st = "out" /\ ch = "\"" -> <<ch>> \o RefRewrite(b, q, i + 1, "double", k)
           [] st = "single" /\ ch = "'" /\ i < Len(q) /\ q[i + 1] = "'" ->
                <<ch, ch>> \o RefRewrite(b, q, i + 2, st, k)
           [] st = "single" /\ ch = "'" -> <<ch>> \o RefRewrite(b, q, i + 1, "out", k)
           [] st = "double" /\ ch = "\"" -> <<ch>> \o RefRewrite(b, q, i + 1, "out", k)
           [] OTHER -> <<ch>> \o RefRewrite(b, q, i + 1, st, k)

\* the positions where a doubled single quote starts inside a single-quoted
\* literal of q (no double quote involved)
RECURSIVE DoubledQuotes(_, _, _)
DoubledQuotes(q, i, inside) ==
    IF i > Len(q) THEN {}
    ELSE IF q[i] # "'" THEN DoubledQuotes(q, i + 1, inside)
    ELSE IF ~inside THEN DoubledQuotes(q, i + 1, TRUE)
    ELSE IF i < Len(q) /\ q[i + 1] = "'" THEN {i} \cup DoubledQuotes(q, i + 2, TRUE)
    ELSE DoubledQuotes(q, i + 1, FALSE)

\* C6 (as claimed): replacePlaceholders returns the reference rewriting of
\* every text: the ? outside every literal become placeholder(0),
\* placeholder(1), ... and everything else is copied.
C6_EqualsReference ==
    rpResult.called => rpResult.out = RefRewrite(backend, query, 1, "out", 0)

\* C7 (as claimed): when the scanner is inside a single-quoted literal, the
\* two quotes of a doubled single quote leave it inside the literal.
C7_DoubledQuoteKeepsState ==
    (rpResult.called /\ "\"" \notin {query[i] : i \in DOMAIN query}) =>
        \A i \in DoubledQuotes(query, 1, FALSE) :
            rpResult.scans[i].inQuote => rpResult.scans[i + 2].inQuote

====
